---- MODULE Spec2Model ----
(***************************************************************************)
(* A model of pygcam's scenario XML editing machinery:                     *)
(*   - the process-wide cache of parsed XML trees (CachedFile),            *)
(*   - the module-level edit primitives xmlSel / xmlIns / xmlEdit,         *)
(*   - XMLEditor: construction, setupStatic, setupDynamic, getLocalCopy    *)
(*     and the callable edit operations built on them,                     *)
(*   - utils.removeTreeSafely,                                             *)
(*   - scenarioSetup.copyWorkspace run by concurrent processes.            *)
(*                                                                         *)
(* Files are named by paths, a path being the sequence of its components.  *)
(* An XML document is the sequence of its <Value>-like elements, each a    *)
(* record [grp, name, text]: grp is the tag of the enclosing group         *)
(* element, name the element's name attribute, text its text.              *)
(***************************************************************************)
EXTENDS Integers, Sequences, FiniteSets, TLC

(***************************************************************************)
(* Bounds of the model.                                                    *)
(***************************************************************************)
\* largest numeric element text the edit operations may produce
MaxVal == 2
\* longest suffix (in components) getLocalCopy may keep below the scenario directory
MaxSuffixLen == 2
\* most elements a document may hold (xmlIns appends one)
MaxElts == 2
\* most times one (scenario, tag) local copy may be made
MaxCopies == 2
\* most lock-file inodes created in one run of the workspace model
MaxInodes == 3
\* most entries the ScenarioComponents list of a configuration may hold
MaxComps == 3
\* expandYearRanges: the largest number of (year, value) pairs in a call
MaxEntries == 2

(***************************************************************************)
(* The scenarios: a baseline, a policy scenario derived from it and a      *)
(* scenario derived from that one.  Scenario names are directory names.    *)
(***************************************************************************)
Baseline == "base"
Policy == "pol"
Leaf == "g-xml"
Scen == {Baseline, Policy, Leaf}
NoParent == "none"
Parent(s) == IF s = Policy THEN Baseline ELSE IF s = Leaf THEN Policy ELSE NoParent

\* the scenario group directory and the one component tag and file
GroupDir == "grp"
Tags == {"F"}
FileOf(tag) == "F.xml"
ConfigName == "config.xml"

\* constants.py: LOCAL_XML_NAME, DYN_XML_NAME
LOCAL_XML_NAME == "local-xml"
DYN_XML_NAME == "dyn-xml"

(***************************************************************************)
(* Configuration parameters and the directory layout they give.            *)
(***************************************************************************)
\* GCAM.RefWorkspace, GCAM.SandboxRefWorkspace, GCAM.RefConfigFile
RefWorkspace == <<"ref">>
SandboxRefWorkspace == <<"ws">>
RefConfigFile == <<"ref", "exe", "configuration_ref.xml">>
\* XMLEditor.__init__: xmlOutputRoot is the scenario's sandbox
xmlOutputRoot(s) == <<"sb", s>>
sandboxExeDir == SandboxRefWorkspace \o <<"exe">>
local_xml_abs(s) == xmlOutputRoot(s) \o <<LOCAL_XML_NAME>>
dyn_xml_abs(s) == xmlOutputRoot(s) \o <<DYN_XML_NAME>>
local_xml_rel == <<"..", LOCAL_XML_NAME>>
scenario_dir_abs(s) == local_xml_abs(s) \o <<GroupDir, s>>
scenario_dir_rel(s) == local_xml_rel \o <<GroupDir, s>>
scenario_dyn_dir_abs(s) == dyn_xml_abs(s) \o <<GroupDir, s>>

\* the path the reference configuration records for a tag, relative to exe/
RefRelPath(tag) == <<"..", "input", FileOf(tag)>>
\* XMLEditor.__init__: socioeconomics_dir_rel, the data directory left out
socioeconomics_dir_rel == <<"..", "input", "socioeconomics-xml">>

\* Directory symlinks made when the workspace and the sandboxes are created:
\* ws/input -> ref/input, sandbox/local-xml -> ws/local-xml,
\* sandbox/dyn-xml -> ws/dyn-xml.
DirLinkFrom == {SandboxRefWorkspace \o <<"input">>}
                 \cup {local_xml_abs(s) : s \in Scen}
                 \cup {dyn_xml_abs(s) : s \in Scen}
DirLinkTo(l) == IF l = SandboxRefWorkspace \o <<"input">> THEN RefWorkspace \o <<"input">>
                ELSE IF l[Len(l)] = LOCAL_XML_NAME THEN SandboxRefWorkspace \o <<LOCAL_XML_NAME>>
                ELSE SandboxRefWorkspace \o <<DYN_XML_NAME>>

(***************************************************************************)
(* Paths.                                                                  *)
(***************************************************************************)
IsPrefix(a, b) == Len(a) <= Len(b) /\ SubSeq(b, 1, Len(a)) = a
Basename(p) == p[Len(p)]
Dirname(p) == SubSeq(p, 1, Len(p) - 1)

\* pathjoin(base, rel, abspath=True): join and normalise the leading ".."
AbsFrom(base, rel) == IF Len(rel) > 0 /\ rel[1] = ".." THEN Dirname(base) \o Tail(rel)
                      ELSE base \o rel

\* follow the directory symlinks in the first n components of p
ResolvePrefix(p, n) == IF \E l \in DirLinkFrom : IsPrefix(l, p) /\ Len(l) <= n
                       THEN LET l == CHOOSE x \in DirLinkFrom : IsPrefix(x, p) /\ Len(x) <= n
                            IN DirLinkTo(l) \o SubSeq(p, Len(l) + 1, Len(p))
                       ELSE p
\* what the OS does with every component but the last
ResolveDirs(p) == ResolvePrefix(p, Len(p) - 1)

\* directory names matched by XmlDirPattern = '/[^/]*-xml/'
XmlDirNames == {LOCAL_XML_NAME, DYN_XML_NAME, "energy-xml", "socioeconomics-xml", Leaf}

\* re.finditer(XmlDirPattern, path): indexes of the matched components.  A
\* match consumes the slash that follows it, so the component right after a
\* match cannot match; the last component has no trailing slash.
RECURSIVE XmlDirMatches(_, _, _)
XmlDirMatches(p, i, free) ==
    IF i >= Len(p) THEN {}
    ELSE IF free /\ p[i] \in XmlDirNames THEN {i} \cup XmlDirMatches(p, i + 1, FALSE)
    ELSE XmlDirMatches(p, i + 1, TRUE)

Max(S) == CHOOSE x \in S : \A y \in S : y <= x

\* getLocalCopy: the part of the source path kept under the scenario directory
LocalSuffix(srcAbsPath) ==
    LET matches == XmlDirMatches(srcAbsPath, 1, TRUE)
    IN IF matches # {}
       THEN LET m == Max(matches)
            IN IF srcAbsPath[m] = LOCAL_XML_NAME THEN <<Basename(srcAbsPath)>>
               ELSE SubSeq(srcAbsPath, m, Len(srcAbsPath))
       ELSE <<Basename(srcAbsPath)>>


(***************************************************************************)
(* Python values and element texts.  A text is <<"num", n, dot>> (the      *)
(* digits of n, with ".0" when dot), <<"str", s>> or <<"path", p>>; an     *)
(* argument value is <<"int", n>>, <<"flt", n>> or a text.                 *)
(***************************************************************************)
NumText(n, dot) == <<"num", n, dot>>
StrText(s) == <<"str", s>>
PathText(p) == <<"path", p>>
PyInt(n) == <<"int", n>>
PyFloat(n) == <<"flt", n>>
IsNumber(v) == v[1] \in {"int", "flt"}

\* str(value)
PyStr(v) == IF v[1] = "int" THEN NumText(v[2], FALSE)
            ELSE IF v[1] = "flt" THEN NumText(v[2], TRUE)
            ELSE v
\* str(value) as an attribute value
IntStr(n) == <<"0", "1", "2", "3", "4", "5", "6", "7", "8", "9">>[(n % 10) + 1]
AttrStr(v) == IF v[1] = "int" THEN IntStr(v[2])
              ELSE IF v[1] = "flt" THEN IntStr(v[2]) \o ".0"
              ELSE v[2]
\* float(text) succeeds on numeric text only
IsNumeric(text) == text[1] = "num"

(***************************************************************************)
(* Documents and XPath selectors.  A selector [grp, key, val, attr] stands *)
(* for //grp/Value[@name='val'] (key = "name") or //grp/Value[text()='val']*)
(* (key = "text") or //grp/Value (key = "any"), grp "*" for any group,     *)
(* followed by /@attr when attr is not "".  Any other key stands for a     *)
(* selector that is not a well-formed XPath.                               *)
(***************************************************************************)
Elt(grp, name, text) == [grp |-> grp, name |-> name, text |-> text]
XPath(grp, key, val, attr) == [grp |-> grp, key |-> key, val |-> val, attr |-> attr]
ByName(grp, name) == XPath(grp, "name", name, "")

\* tree.xpath(xpath) raises XPathEvalError on a selector that is not well formed
ValidXPath(xp) == xp.key \in {"name", "text", "any"}

EltMatches(e, xp) == /\ xp.grp \in {"*", e.grp}
                     /\ IF xp.key = "name" THEN e.name = xp.val
                        ELSE IF xp.key = "text" THEN e.text = xp.val
                        ELSE TRUE

\* tree.xpath(xpath): the indexes of the matching elements, in document order
SelectAll(tree, xp) == {i \in 1..Len(tree.elts) : EltMatches(tree.elts[i], xp)}
Min(S) == CHOOSE x \in S : \A y \in S : x <= y
\* tree.find(xpath): the first match, 0 for None
FindFirst(tree, xp) == IF SelectAll(tree, xp) = {} THEN 0 ELSE Min(SelectAll(tree, xp))

\* the reference configuration file and the reference data file
RefConfigDoc == [groups |-> {"Strings", "ScenarioComponents"},
                 elts |-> <<Elt("Strings", "scenarioName", StrText("Reference"))>>
                          \o <<Elt("ScenarioComponents", "F", PathText(RefRelPath("F")))>>]
RefDataDoc == [groups |-> {"data"}, elts |-> <<Elt("data", "e", NumText(1, TRUE))>>]
RefDataPath(tag) == RefWorkspace \o <<"input", FileOf(tag)>>

(***************************************************************************)
(* The state.                                                              *)
(***************************************************************************)
VARIABLES
    disk,      \* regular files: canonical path -> document
    links,     \* file symlinks: canonical path of the link -> path it names
    cache,     \* CachedFile.cache: filename -> [tree, edited, mut, gen]
    parses,    \* number of times ET.parse has read each file
    copies,    \* number of shutil.copy calls made by copyIfMissing, per destination
    phase,     \* per scenario: "none", "new" (editor constructed), "static"
    returned,  \* the (relative, absolute) paths getLocalCopy has returned, per scenario and tag
    written,   \* the files the last step wrote from the cache
    wsFiles,   \* copyWorkspace: the files present in the new workspace
    lockInode, \* copyWorkspace: the inode the lock-file path names, 0 for none
    pc,        \* copyWorkspace: per process, its position
    held,      \* copyWorkspace: per process, the inode its descriptor is open on, 0 for none
    locked,    \* copyWorkspace: per process, whether it holds the flock on that inode
    force,     \* copyWorkspace: per process, its forceCreate flag
    nextInode, \* copyWorkspace: the next inode number to hand out
    version,   \* GCAM.VersionNumber, fixed for the run
    yearSeq,   \* expandYearRanges: the sequence of (year, value) pairs it is given
    yearResult, \* expandYearRanges: what the call gave, NotCalled before it
    wsDirs,    \* createSandbox: per workspace directory, whether it exists and its entries
    jug        \* jugWorker: the baseline task and the policy tasks of one trial

fsVars == <<disk, links, cache, parses, copies, phase, returned, written, version, yearSeq, yearResult, wsDirs, jug>>
wsVars == <<wsFiles, lockInode, pc, held, locked, force, nextInode, version, yearSeq, yearResult, wsDirs, jug>>
vars == <<disk, links, cache, parses, copies, phase, returned, written,
          wsFiles, lockInode, pc, held, locked, force, nextInode, version, yearSeq, yearResult, wsDirs, jug>>

Put(f, k, v) == [x \in DOMAIN f \cup {k} |-> IF x = k THEN v ELSE f[x]]
Drop(f, K) == [x \in DOMAIN f \ K |-> f[x]]
Count(f, k) == IF k \in DOMAIN f THEN f[k] ELSE 0
Seen(f, k) == IF k \in DOMAIN f THEN f[k] ELSE {}

(***************************************************************************)
(* The file system as the OS sees it.                                      *)
(***************************************************************************)
\* resolve every symlink of a path, the last component included
RECURSIVE OsResolve(_, _)
OsResolve(p, fuel) ==
    LET q == ResolvePrefix(p, Len(p))
    IN IF q \in DOMAIN links /\ fuel > 0 THEN OsResolve(links[q], fuel - 1) ELSE q

\* os.path.realpath
realpath(p) == OsResolve(p, 3)
\* os.path.lexists: the last component is not followed
lexists(d, p) == ResolveDirs(p) \in DOMAIN d \cup DOMAIN links
\* the regular file a path opens, and whether there is one
isfile(d, p) == OsResolve(p, 3) \in DOMAIN d
ReadFile(d, p) == d[OsResolve(p, 3)]
\* shutil.copy(src, dst): the bytes go to the file dst names
CopyFile(d, src, dst) == Put(d, OsResolve(dst, 3), ReadFile(d, src))
\* the entries directly inside a directory (glob dir/*)
DirEntries(S, dir) == {p \in S : Len(p) = Len(dir) + 1 /\ IsPrefix(dir, p)}
\* everything below a directory
Below(S, dir) == {p \in S : IsPrefix(dir, p)}


(***************************************************************************)
(* CachedFile: the cache of parsed trees.  An entry holds the tree, the    *)
(* edited flag, whether the tree was assigned to since it was loaded or    *)
(* last written (mut), and which parse of the file made it (gen).          *)
(***************************************************************************)
Entry(tree, edited, mut, gen) == [tree |-> tree, edited |-> edited, mut |-> mut, gen |-> gen]

\* CachedFile.__init__ past the canonicalisation: parse the file fn, store
\* the entry under fn
Load(d, c, np, fn) ==
    IF ~isfile(d, fn)
    THEN [ok |-> FALSE, key |-> fn, cache |-> c, parses |-> np]
    ELSE [ok |-> TRUE, key |-> fn,
          cache |-> Put(c, fn, Entry(ReadFile(d, fn), FALSE, FALSE, Count(np, fn) + 1)),
          parses |-> Put(np, fn, Count(np, fn) + 1)]

\* CachedFile.__init__: canonicalise, parse, store under the canonical name
CachedFile(d, c, np, filename) == Load(d, c, np, realpath(filename))

\* a getFile that looks the name up as given
getFileAsGiven(d, c, np, filename) ==
    IF filename \in DOMAIN c
    THEN [ok |-> TRUE, key |-> filename, cache |-> c, parses |-> np]
    ELSE CachedFile(d, c, np, filename)

\* a getFile that parses the file on every call
LookupParsesAgain(d, c, np, fn) == CachedFile(d, c, np, fn)

\* CachedFile.getFile past the canonicalisation: the entry of fn, or a new one
Lookup(d, c, np, fn) ==
    IF fn \in DOMAIN c
    THEN [ok |-> TRUE, key |-> fn, cache |-> c, parses |-> np]
    ELSE CachedFile(d, c, np, fn)

\* CachedFile.getFile
getFile(d, c, np, filename) == Lookup(d, c, np, realpath(filename))

\* CachedFile.setEdited
setEdited(c, key) == [c EXCEPT ![key].edited = TRUE]
\* an assignment to the tree of an entry
SetTree(c, key, tree) == [c EXCEPT ![key].tree = tree, ![key].mut = TRUE]

\* a decache that writes whatever is cached
decacheAlways(c, key) == TRUE
\* CachedFile.decache: write only when edited
decache(c, key) == c[key].edited

\* CachedFile.decacheAll: the files written, the disk and the cache after it
WrittenByDecacheAll(c) == {k \in DOMAIN c : decache(c, k)}
DiskAfterWrite(d, c, K) == [p \in DOMAIN d \cup K |-> IF p \in K THEN c[p].tree ELSE d[p]]
\* a write that leaves the edited flag set
CacheKeptAfterWrite(c, K) == c
CacheAfterWrite(c, K) == [k \in DOMAIN c |-> IF k \in K THEN Entry(c[k].tree, FALSE, FALSE, c[k].gen)
                                               ELSE c[k]]

(***************************************************************************)
(* xmlSel, xmlIns, xmlEdit.  Each takes the cache entry g that getFile     *)
(* returned in a second operator of its own.                               *)
(***************************************************************************)
\* xmlSel past getFile: tree.find(xpath), the text found (<<>> for None)
SelIn(c, np, g, xp) ==
    IF ~g.ok THEN [ok |-> FALSE, cache |-> c, parses |-> np, found |-> FALSE, text |-> <<>>]
    ELSE [ok |-> TRUE, cache |-> g.cache, parses |-> g.parses,
          found |-> FindFirst(g.cache[g.key].tree, xp) # 0,
          text |-> IF FindFirst(g.cache[g.key].tree, xp) = 0 THEN <<>>
                   ELSE g.cache[g.key].tree.elts[FindFirst(g.cache[g.key].tree, xp)].text]

\* xmlSel(filename, xpath, asText=True)
xmlSel(d, c, np, filename, xp) == SelIn(c, np, getFile(d, c, np, filename), xp)


\* xmlIns past getFile: the entry is flagged, then the parent sought
InsIn(c, np, g, parentGrp, elt) ==
    IF ~g.ok THEN [ok |-> FALSE, cache |-> c, parses |-> np]
    ELSE IF parentGrp \notin g.cache[g.key].tree.groups
         THEN [ok |-> FALSE, cache |-> setEdited(g.cache, g.key), parses |-> g.parses]
         ELSE [ok |-> TRUE, parses |-> g.parses,
               cache |-> SetTree(setEdited(g.cache, g.key), g.key,
                                 [g.cache[g.key].tree EXCEPT !.elts = Append(@, elt)])]

\* xmlIns(filename, xpath, elt)
xmlIns(d, c, np, filename, parentGrp, elt) == InsIn(c, np, getFile(d, c, np, filename), parentGrp, elt)

\* an arithmetic that keeps the form of the text it finds ("1" * 2 = "2")
ModEltKeepsForm(op, e, value) ==
    IF op = "set" THEN [ok |-> TRUE, e |-> [e EXCEPT !.text = PyStr(value)]]
    ELSE IF ~IsNumeric(e.text) THEN [ok |-> FALSE, e |-> e]
    ELSE IF op = "multiply" THEN [ok |-> TRUE, e |-> [e EXCEPT !.text = NumText(e.text[2] * value[2], e.text[3])]]
    ELSE [ok |-> TRUE, e |-> [e EXCEPT !.text = NumText(e.text[2] + value[2], e.text[3])]]

\* _set, _multiply, _add on one element; ok is FALSE when float(elt.text) raises
ModElt(op, e, value) ==
    IF op = "set" THEN [ok |-> TRUE, e |-> [e EXCEPT !.text = PyStr(value)]]
    ELSE IF ~IsNumeric(e.text) THEN [ok |-> FALSE, e |-> e]
    ELSE IF op = "multiply" THEN [ok |-> TRUE, e |-> [e EXCEPT !.text = NumText(e.text[2] * value[2], TRUE)]]
    ELSE [ok |-> TRUE, e |-> [e EXCEPT !.text = NumText(e.text[2] + value[2], TRUE)]]

\* one (xpath, value) pair applied to the elements from index i on
RECURSIVE EditFrom(_, _, _, _, _)
EditFrom(elts, i, xp, value, op) ==
    IF i > Len(elts) THEN [ok |-> TRUE, elts |-> elts]
    ELSE IF ~EltMatches(elts[i], [xp EXCEPT !.attr = ""]) THEN EditFrom(elts, i + 1, xp, value, op)
    ELSE IF xp.attr # ""
         THEN EditFrom([elts EXCEPT ![i].name = AttrStr(value)], i + 1, xp, value, op)
         ELSE IF ModElt(op, elts[i], value).ok
              THEN EditFrom([elts EXCEPT ![i] = ModElt(op, elts[i], value).e], i + 1, xp, value, op)
              ELSE [ok |-> FALSE, elts |-> elts]

\* the loop of xmlEdit over the pairs from index j on; the elements r that
\* one pair's inner loop left are taken in EditNext
RECURSIVE EditPairs(_, _, _, _, _)
\* a loop that goes on with the next pair after an element raised
EditNextGoesOn(tree, pairs, j, op, updated, r) ==
    IF r.ok THEN EditPairs([tree EXCEPT !.elts = r.elts], pairs, j + 1, op, TRUE)
    ELSE [EditPairs([tree EXCEPT !.elts = r.elts], pairs, j + 1, op, TRUE) EXCEPT !.ok = FALSE]

EditNext(tree, pairs, j, op, updated, r) ==
    IF r.ok THEN EditPairs([tree EXCEPT !.elts = r.elts], pairs, j + 1, op, TRUE)
    ELSE [ok |-> FALSE, tree |-> [tree EXCEPT !.elts = r.elts], updated |-> TRUE,
          mut |-> updated \/ r.elts # tree.elts]

EditPairs(tree, pairs, j, op, updated) ==
    IF j > Len(pairs) THEN [ok |-> TRUE, tree |-> tree, updated |-> updated, mut |-> updated]
    ELSE IF ~ValidXPath(pairs[j][1])
         THEN [ok |-> FALSE, tree |-> tree, updated |-> updated, mut |-> updated]
    ELSE IF SelectAll(tree, [pairs[j][1] EXCEPT !.attr = ""]) = {}
         THEN EditPairs(tree, pairs, j + 1, op, updated)
         ELSE EditNext(tree, pairs, j, op, updated, EditFrom(tree.elts, 1, pairs[j][1], pairs[j][2], op))

legalOps == {"set", "multiply", "add"}

\* the cache once the loop of xmlEdit has run on entry key with result r
Edited(c, key, r) == IF r.mut THEN SetTree(c, key, r.tree) ELSE c


\* an xmlEdit that flags the entry whenever it returns
EditAlwaysFlag(g, r) ==
    [ok |-> r.ok, parses |-> g.parses, updated |-> r.ok /\ r.updated,
     cache |-> IF r.ok THEN setEdited(Edited(g.cache, g.key, r), g.key) ELSE Edited(g.cache, g.key, r)]

\* xmlEdit past its loop: the entry is flagged when something was updated
EditDone(g, r) ==
    [ok |-> r.ok, parses |-> g.parses, updated |-> r.ok /\ r.updated,
     cache |-> IF r.ok /\ r.updated THEN setEdited(Edited(g.cache, g.key, r), g.key)
               ELSE Edited(g.cache, g.key, r)]

\* xmlEdit past getFile
EditIn(c, np, g, pairs, op) ==
    IF ~g.ok THEN [ok |-> FALSE, cache |-> c, parses |-> np, updated |-> FALSE]
    ELSE EditDone(g, EditPairs(g.cache[g.key].tree, pairs, 1, op, FALSE))

\* xmlEdit(filename, pairs, op), useCache=True
xmlEdit(d, c, np, filename, pairs, op) ==
    IF op \notin legalOps THEN [ok |-> FALSE, cache |-> c, parses |-> np, updated |-> FALSE]
    ELSE EditIn(c, np, getFile(d, c, np, filename), pairs, op)


(***************************************************************************)
(* XMLEditor.                                                              *)
(***************************************************************************)
\* parse_version_info() < VersionInfo(4, 3, 0), over the versions
\* scenarioSetup.py knows; GCAM.CopyAllFiles is off
Versions == {"4.2", "4.3"}
VersionBefore43 == version = "4.2"
CopyAllFiles == FALSE

\* XMLEditor.cfgPath
cfgPath(s) == realpath(scenario_dir_abs(s) \o <<ConfigName>>)

\* XMLEditor.componentPath: the text of //Value[@name="tag"], or a raise
MustFind(r) == [r EXCEPT !.ok = r.ok /\ r.found]
componentPath(d, c, np, tag, configPath) == MustFind(xmlSel(d, c, np, configPath, ByName("*", tag)))

\* copyIfMissing: whether it copies
copyIfMissing(d, src, dst) == ~lexists(d, dst)

\* getLocalCopy raises: the cache keeps what was loaded on the way
NoLocalCopy(d, r) == [ok |-> FALSE, disk |-> d, cache |-> r.cache, parses |-> r.parses, copied |-> FALSE,
                      rel |-> <<>>, abs |-> <<>>, src |-> <<>>]

\* getLocalCopy, last part: copy the source unless the destination exists
CopyLocal(d, r, srcAbsPath, dstAbsPath, dstRelPath) ==
    IF copyIfMissing(d, srcAbsPath, dstAbsPath) /\ ~isfile(d, srcAbsPath) THEN NoLocalCopy(d, r)
    ELSE [ok |-> TRUE, cache |-> r.cache, parses |-> r.parses,
          copied |-> copyIfMissing(d, srcAbsPath, dstAbsPath),
          disk |-> IF copyIfMissing(d, srcAbsPath, dstAbsPath) THEN CopyFile(d, srcAbsPath, dstAbsPath) ELSE d,
          rel |-> dstRelPath, abs |-> dstAbsPath, src |-> srcAbsPath]

\* getLocalCopy, third part: the destination is the scenario's directory
\* followed by the part of the source that follows its last *-xml directory
PlaceLocal(d, s, r, srcAbsPath) ==
    CopyLocal(d, r, srcAbsPath, scenario_dir_abs(s) \o LocalSuffix(srcAbsPath),
              scenario_dir_rel(s) \o LocalSuffix(srcAbsPath))

\* getLocalCopy, second part: the source is the file the pathname names,
\* resolved from the exe directory base; r is the lookup that gave the
\* pathname finally used
SourcePath(d, s, base, r) ==
    IF ~r.ok THEN NoLocalCopy(d, r)
    ELSE PlaceLocal(d, s, r, AbsFrom(base, r.text[2]))

\* getLocalCopy, first part: the pathname comes from the scenario's own
\* configuration; when that file does not exist, from the reference one
OwnOrReference(d, s, tag, r1) ==
    IF ~r1.ok THEN NoLocalCopy(d, r1)
    ELSE IF lexists(d, AbsFrom(sandboxExeDir, r1.text[2])) THEN SourcePath(d, s, sandboxExeDir, r1)
    ELSE SourcePath(d, s, SandboxRefWorkspace \o <<"exe">>,
                    componentPath(d, r1.cache, r1.parses, tag, RefConfigFile))

\* XMLEditor.getLocalCopy
getLocalCopy(d, c, np, s, tag) == OwnOrReference(d, s, tag, componentPath(d, c, np, tag, cfgPath(s)))

\* XMLEditor.updateConfigComponent(group, name, value)
updateConfigComponent(d, c, np, s, group, name, value) ==
    xmlEdit(d, c, np, cfgPath(s), <<<<ByName(group, name), value>>>>, "set")

\* XMLEditor.updateScenarioComponent(name, xmlfile)
updateScenarioComponent(d, c, np, s, name, xmlfile) ==
    updateConfigComponent(d, c, np, s, "ScenarioComponents", name, PathText(xmlfile))

\* XMLEditor.renameScenarioComponent(name, xmlfile)
renameScenarioComponent(d, c, np, s, name, xmlfile) ==
    xmlEdit(d, c, np, cfgPath(s),
            <<<<XPath("ScenarioComponents", "text", PathText(xmlfile), "name"), StrText(name)>>>>, "set")

\* XMLEditor.makeScenarioComponentsUnique
makeScenarioComponentsUnique(d, c, np, s) ==
    IF VersionBefore43
    THEN renameScenarioComponent(d, c, np, s, "interest_rate", socioeconomics_dir_rel \o <<"interest_rate.xml">>)
    ELSE [ok |-> TRUE, cache |-> c, parses |-> np, updated |-> FALSE]

\* the result of an edit operation: of its local copy g and its last call e
EditResult(g, e) ==
    [ok |-> e.ok, disk |-> g.disk, cache |-> e.cache, parses |-> e.parses, copied |-> g.copied,
     rel |-> g.rel, abs |-> g.abs, src |-> g.src, updated |-> e.updated]

\* the edit operation raised in getLocalCopy
NotEdited(g) == [ok |-> FALSE, cache |-> g.cache, parses |-> g.parses, updated |-> FALSE]


\* multiply / add past xmlEdit: self.updateScenarioComponent(tag, xmlFileRel)
EditThenRegister(s, tag, g, e) ==
    IF ~e.ok THEN EditResult(g, e)
    ELSE EditResult(g, [updateScenarioComponent(g.disk, e.cache, e.parses, s, tag, g.rel)
                            EXCEPT !.updated = e.updated])

\* a multiply / add that edits the file it copied from
EditSource(s, tag, g, xp, value, op) ==
    IF ~g.ok THEN EditResult(g, NotEdited(g))
    ELSE EditThenRegister(s, tag, g, xmlEdit(g.disk, g.cache, g.parses, g.src, <<<<xp, value>>>>, op))

\* multiply / add past getLocalCopy: xmlEdit(xmlFileAbs, [(xpath, value)], op)
EditLocal(s, tag, g, xp, value, op) ==
    IF ~g.ok THEN EditResult(g, NotEdited(g))
    ELSE EditThenRegister(s, tag, g, xmlEdit(g.disk, g.cache, g.parses, g.abs, <<<<xp, value>>>>, op))

\* XMLEditor.multiply(tag, xpath, value) and XMLEditor.add(tag, xpath, value)
multiply(d, c, np, s, tag, xp, value) ==
    EditLocal(s, tag, getLocalCopy(d, c, np, s, tag), xp, value, "multiply")
add(d, c, np, s, tag, xp, value) ==
    EditLocal(s, tag, getLocalCopy(d, c, np, s, tag), xp, value, "add")

\* replaceValue past getLocalCopy: xmlEdit(xmlFileAbs, [(xpath, str(value))])
ReplaceLocal(s, tag, g, xp, value) ==
    IF ~g.ok THEN EditResult(g, NotEdited(g))
    ELSE EditResult(g, xmlEdit(g.disk, g.cache, g.parses, g.abs, <<<<xp, PyStr(value)>>>>, "set"))

\* XMLEditor.replaceValue(tag, xpath, value)
replaceValue(d, c, np, s, tag, xp, value) ==
    ReplaceLocal(s, tag, getLocalCopy(d, c, np, s, tag), xp, value)

\* utils.removeTreeSafely: whether it refuses
removeTreeUnchecked(path) == FALSE
removeTreeRefuses(path) == IsPrefix(realpath(RefWorkspace), realpath(path))


(***************************************************************************)
(* The operations as actions.  An operation that raises ends where it      *)
(* raised: what it did before stays done.                                  *)
(***************************************************************************)
EmptyFn == [x \in {} |-> 0]
NoPath == <<>>

\* the numeric texts and the document sizes stay within the bounds
InBounds(c) == \A k \in DOMAIN c :
                  /\ Len(c[k].tree.elts) <= (IF "ScenarioComponents" \in c[k].tree.groups
                                              THEN MaxComps + 1 ELSE MaxElts)
                  /\ \A i \in 1..Len(c[k].tree.elts) :
                        IsNumeric(c[k].tree.elts[i].text) => c[k].tree.elts[i].text[2] <= MaxVal

\* the canonical directory of a scenario's static files and of its dynamic files
LocalDir(s) == realpath(scenario_dir_abs(s))
DynDir(s) == realpath(scenario_dyn_dir_abs(s))

\* CachedFile.decacheAll() on the disk d and the cache c
Flush(d, c) ==
    /\ disk' = DiskAfterWrite(d, c, WrittenByDecacheAll(c))
    /\ cache' = CacheAfterWrite(c, WrittenByDecacheAll(c))
    /\ written' = WrittenByDecacheAll(c)

\* XMLEditor.__init__: for a scenario derived from a baseline, the stale
\* files of its directory are deleted
Construct(s) ==
    /\ phase[s] = "none"
    /\ Parent(s) # NoParent => phase[Parent(s)] # "none"
    /\ phase' = [phase EXCEPT ![s] = "new"]
    /\ IF Parent(s) # NoParent
       THEN /\ disk' = Drop(disk, Below(DOMAIN disk, LocalDir(s)))
            /\ links' = Drop(links, Below(DOMAIN links, LocalDir(s)))
       ELSE UNCHANGED <<disk, links>>
    /\ written' = {}
    /\ UNCHANGED <<cache, parses, copies, returned>>
    /\ UNCHANGED wsVars

\* Another XMLEditor is constructed for a scenario that already had one in
\* this process: the class-level cache still holds what the earlier one read
ConstructAgain(s) ==
    /\ phase[s] # "none"
    /\ phase' = [phase EXCEPT ![s] = "new"]
    /\ IF Parent(s) # NoParent
       THEN /\ disk' = Drop(disk, Below(DOMAIN disk, LocalDir(s)))
            /\ links' = Drop(links, Below(DOMAIN links, LocalDir(s)))
       ELSE UNCHANGED <<disk, links>>
    /\ written' = {}
    /\ UNCHANGED <<cache, parses, copies, returned>>
    /\ UNCHANGED wsVars

\* setupStatic: the configuration it clones
ParentConfigPath(s) == IF Parent(s) # NoParent THEN cfgPath(Parent(s)) ELSE RefConfigFile

\* setupStatic, last part: CachedFile.decacheAll()
StaticFlush(s, d1, m) ==
    /\ Flush(d1, m.cache)
    /\ parses' = m.parses
    /\ phase' = [phase EXCEPT ![s] = "static"]

\* setupStatic, third part: a baseline makes its component names unique
StaticUnique(s, d1, u) ==
    IF Parent(s) = NoParent THEN StaticFlush(s, d1, makeScenarioComponentsUnique(d1, u.cache, u.parses, s))
    ELSE StaticFlush(s, d1, u)

\* setupStatic, second part: set the scenario name in the cloned configuration
StaticName(s, d1) ==
    StaticUnique(s, d1, updateConfigComponent(d1, cache, parses, s, "Strings", "scenarioName", StrText(s)))

\* XMLEditor.setupStatic: clone the parent's (or the reference) config.xml,
\* set the scenario name, make component names unique for a baseline, flush
SetupStatic(s) ==
    /\ phase[s] = "new"
    /\ IF ~isfile(disk, ParentConfigPath(s))
       THEN /\ written' = {}
            /\ UNCHANGED <<disk, cache, parses, phase>>
       ELSE StaticName(s, CopyFile(disk, ParentConfigPath(s), cfgPath(s)))
    /\ UNCHANGED <<links, copies, returned>>
    /\ UNCHANGED wsVars

\* setupDynamic past recreateDir: link every *.xml of the scenario directory
\* into the dynamic directory, flush
DynamicLinks(s, d1, l1) ==
    /\ links' = [p \in DOMAIN l1 \cup {DynDir(s) \o <<Basename(x)>> :
                                         x \in DirEntries(DOMAIN d1 \cup DOMAIN l1, LocalDir(s))} |->
                    IF p \in DOMAIN l1 THEN l1[p] ELSE scenario_dir_abs(s) \o <<Basename(p)>>]
    /\ Flush(d1, cache)

\* XMLEditor.setupDynamic: empty the dynamic directory, link, flush
SetupDynamic(s) ==
    /\ phase[s] = "static"
    /\ ~removeTreeRefuses(scenario_dyn_dir_abs(s))
    /\ DynamicLinks(s, Drop(disk, Below(DOMAIN disk, DynDir(s))), Drop(links, Below(DOMAIN links, DynDir(s))))
    /\ UNCHANGED <<parses, copies, phase, returned>>
    /\ UNCHANGED wsVars

(***************************************************************************)
(* setupSolver.  An argument is None, a number, float('nan') or a string.  *)
(***************************************************************************)
None == <<"none">>
NaN == <<"nan">>
SOLVER_TAG == "solver"

\* utils.coercible(value, type): float(value) or int(value); a string that
\* is not a number, and int(float('nan')), raise
coercible(value, type) ==
    IF value = NaN THEN [ok |-> type = "float", value |-> NaN]
    ELSE IF IsNumber(value) THEN [ok |-> TRUE, value |-> IF type = "float" THEN PyFloat(value[2]) ELSE PyInt(value[2])]
    ELSE [ok |-> FALSE, value |-> value]

\* setupSolver.coercibleAndPositive: None for None, else the coerced
\* value, or a raise when "value <= 0"; no comparison with nan is true
coercibleAndPositive(value, requiredType) ==
    IF value = None THEN [ok |-> TRUE, value |-> None]
    ELSE IF ~coercible(value, requiredType).ok THEN [ok |-> FALSE, value |-> value]
    ELSE IF coercible(value, requiredType).value # NaN /\ coercible(value, requiredType).value[2] <= 0
         THEN [ok |-> FALSE, value |-> value]
    ELSE coercible(value, requiredType)

\* "if solutionTol and broydenTol: if broydenTol > solutionTol: raise"
TolerancesRejected(solutionTol, broydenTol) ==
    /\ solutionTol # None /\ broydenTol # None
    /\ solutionTol # NaN /\ broydenTol # NaN
    /\ broydenTol[2] > solutionTol[2]

\* the checks of setupSolver, lines 1258-1266: whether they all pass
SolverArgsPass(solutionTolerance, broydenTolerance, maxModelCalcs, maxIterations) ==
    /\ coercibleAndPositive(solutionTolerance, "float").ok
    /\ coercibleAndPositive(broydenTolerance, "float").ok
    /\ ~TolerancesRejected(coercibleAndPositive(solutionTolerance, "float").value,
                           coercibleAndPositive(broydenTolerance, "float").value)
    /\ coercibleAndPositive(maxModelCalcs, "int").ok
    /\ coercibleAndPositive(maxIterations, "int").ok

\* the element of the solver file a setting is written to
SolverXPath(setting) == ByName("solver", setting)
\* "if value: pairs.append((prefix + setting, value))"
PairIf(value, setting) == IF value # None THEN <<<<SolverXPath(setting), value>>>> ELSE <<>>
\* setupSolver: the pairs, the tolerances as given and the counts as coerced
SolverPairs(solutionTolerance, broydenTolerance, maxModelCalcs, maxIterations) ==
    PairIf(solutionTolerance, "solution-tolerance") \o PairIf(broydenTolerance, "ftol")
        \o PairIf(coercibleAndPositive(maxModelCalcs, "int").value, "max-model-calcs")
        \o PairIf(coercibleAndPositive(maxIterations, "int").value, "max-iterations")

\* setupSolver past getLocalCopy: xmlEdit(solverFileAbs, pairs), then
\* updateScenarioComponent("solver", solverFileRel)
SolverLocal(s, g, pairs) ==
    IF ~g.ok THEN EditResult(g, NotEdited(g))
    ELSE EditThenRegister(s, SOLVER_TAG, g, xmlEdit(g.disk, g.cache, g.parses, g.abs, pairs, "set"))

\* XMLEditor.setupSolver
setupSolver(d, c, np, s, solutionTolerance, broydenTolerance, maxModelCalcs, maxIterations) ==
    IF ~SolverArgsPass(solutionTolerance, broydenTolerance, maxModelCalcs, maxIterations)
    THEN [ok |-> FALSE, disk |-> d, cache |-> c, parses |-> np, copied |-> FALSE,
          rel |-> <<>>, abs |-> <<>>, src |-> <<>>, updated |-> FALSE]
    ELSE SolverLocal(s, getLocalCopy(d, c, np, s, SOLVER_TAG),
                     SolverPairs(solutionTolerance, broydenTolerance, maxModelCalcs, maxIterations))

(***************************************************************************)
(* expandYearRanges.  A year string is the sequence of its characters; the *)
(* call gives [ok, error, echo, result]: the list it returns, or the       *)
(* exception it raises and the input the message shows.                    *)
(***************************************************************************)
DigitChars == <<"0", "1", "2", "3", "4", "5", "6", "7", "8", "9">>
IsDigits(cs) == Len(cs) > 0 /\ \A i \in 1..Len(cs) : \E d \in 1..10 : DigitChars[d] = cs[i]

\* int(str) of a string of digits
RECURSIVE IntOf(_)
IntOf(cs) ==
    IF cs = <<>> THEN 0
    ELSE 10 * IntOf(SubSeq(cs, 1, Len(cs) - 1)) + (CHOOSE d \in 0..9 : DigitChars[d + 1] = cs[Len(cs)])

\* re.search('^(\d{4})-(\d{4})(:(\d+))?$', year)
YearRangeMatch(year) ==
    /\ Len(year) >= 9
    /\ IsDigits(SubSeq(year, 1, 4))
    /\ year[5] = "-"
    /\ IsDigits(SubSeq(year, 6, 9))
    /\ Len(year) > 9 => (year[10] = ":" /\ IsDigits(SubSeq(year, 11, Len(year))))

\* "int(stepStr) if stepStr else 5"
StepOf(year) == IF Len(year) > 9 THEN IntOf(SubSeq(year, 11, Len(year))) ELSE 5

\* "[[y, value] for y in range(start, stop, step)]", step > 0
RECURSIVE RangePairs(_, _, _, _)
RangePairs(start, stop, step, value) ==
    IF start >= stop THEN <<>>
    ELSE <<<<start, value>>>> \o RangePairs(start + step, stop, step, value)

YearsRaise(error, year) == [ok |-> FALSE, error |-> error, echo |-> year, result |-> <<>>]

\* the loop of expandYearRanges over the pairs from index i on
RECURSIVE ExpandFrom(_, _, _)
ExpandFrom(seq0, i, result) ==
    IF i > Len(seq0) THEN [ok |-> TRUE, error |-> "", echo |-> <<>>, result |-> result]
    ELSE IF ~IsNumber(seq0[i][2]) THEN YearsRaise("ValueError", seq0[i][2])
    ELSE IF \E k \in 1..Len(seq0[i][1]) : seq0[i][1][k] = "-"
         THEN IF ~YearRangeMatch(seq0[i][1]) THEN YearsRaise("SetupException", seq0[i][1])
              ELSE IF StepOf(seq0[i][1]) = 0 THEN YearsRaise("ValueError", seq0[i][1])
              ELSE ExpandFrom(seq0, i + 1,
                              result \o RangePairs(IntOf(SubSeq(seq0[i][1], 1, 4)),
                                                   IntOf(SubSeq(seq0[i][1], 6, 9)) + StepOf(seq0[i][1]),
                                                   StepOf(seq0[i][1]), PyFloat(seq0[i][2][2])))
    ELSE IF ~IsDigits(seq0[i][1]) THEN YearsRaise("ValueError", seq0[i][1])
    ELSE ExpandFrom(seq0, i + 1, result \o <<<<IntOf(seq0[i][1]), PyFloat(seq0[i][2][2])>>>>)

\* expandYearRanges(seq)
expandYearRanges(seq0) == ExpandFrom(seq0, 1, <<>>)

(***************************************************************************)
(* setStopPeriod.                                                          *)
(***************************************************************************)
\* "value if 1 < value < 1000 else 1 + (value - 2000)//5"
stopPeriod(value) == IF 1 < value /\ value < 1000 THEN value ELSE 1 + ((value - 2000) \div 5)

\* setStopPeriod past coercible(yearOrPeriod, int)
StopPeriodOf(d, c, np, s, r) ==
    IF ~r.ok THEN [ok |-> FALSE, cache |-> c, parses |-> np, updated |-> FALSE]
    ELSE updateConfigComponent(d, c, np, s, "Ints", "stop-period", PyInt(stopPeriod(r.value[2])))

\* XMLEditor.setStopPeriod(yearOrPeriod)
setStopPeriod(d, c, np, s, yearOrPeriod) == StopPeriodOf(d, c, np, s, coercible(yearOrPeriod, "int"))

(***************************************************************************)
(* setup and its two phases as functions of the files and the cache.  A    *)
(* result is [ok, disk, links, cache, parses, written]: whether the call   *)
(* returned, what it left, and the files it wrote from the cache.          *)
(***************************************************************************)
Raised(d, l, c, np, w) == [ok |-> FALSE, disk |-> d, links |-> l, cache |-> c, parses |-> np, written |-> w]
Skipped(d, l, c, np) == [ok |-> TRUE, disk |-> d, links |-> l, cache |-> c, parses |-> np, written |-> {}]

\* CachedFile.decacheAll()
decacheAll(d, l, c, np, w) ==
    [ok |-> TRUE, disk |-> DiskAfterWrite(d, c, WrittenByDecacheAll(c)), links |-> l,
     cache |-> CacheAfterWrite(c, WrittenByDecacheAll(c)), parses |-> np,
     written |-> w \cup WrittenByDecacheAll(c)]

\* a setupStatic that makes the names unique whatever the scenario
UniqueAlways(d1, u, s) == makeScenarioComponentsUnique(d1, u.cache, u.parses, s)
\* setupStatic: "if not self.parent: self.makeScenarioComponentsUnique()"
UniqueIfNoParent(d1, u, s) ==
    IF Parent(s) = NoParent THEN makeScenarioComponentsUnique(d1, u.cache, u.parses, s) ELSE u

\* setupStatic past the renaming: CachedFile.decacheAll()
StaticEnd(d1, l, m) == decacheAll(d1, l, m.cache, m.parses, {})

\* setupStatic past the clone d1: set the scenario name, rename, flush
StaticNamed(d1, l, c, np, s) ==
    StaticEnd(d1, l, UniqueIfNoParent(d1, updateConfigComponent(d1, c, np, s, "Strings", "scenarioName",
                                                                 StrText(s)), s))

\* XMLEditor.setupStatic: shutil.copy raises when the parent has no configuration
setupStatic(d, l, c, np, s) ==
    IF ~isfile(d, ParentConfigPath(s)) THEN Raised(d, l, c, np, {})
    ELSE StaticNamed(CopyFile(d, ParentConfigPath(s), cfgPath(s)), l, c, np, s)

\* setupDynamic: the links made for glob("%s/*.xml" % scenDir), in the
\* emptied dynamic directory
LinksMade(d1, l1, s) ==
    [p \in DOMAIN l1 \cup {DynDir(s) \o <<Basename(x)>> : x \in DirEntries(DOMAIN d1 \cup DOMAIN l1, LocalDir(s))} |->
        IF p \in DOMAIN l1 THEN l1[p] ELSE scenario_dir_abs(s) \o <<Basename(p)>>]

\* XMLEditor.setupDynamic: recreateDir raises for a directory of the
\* reference workspace
setupDynamic(d, l, c, np, w, s) ==
    IF removeTreeRefuses(scenario_dyn_dir_abs(s)) THEN Raised(d, l, c, np, w)
    ELSE decacheAll(Drop(d, Below(DOMAIN d, DynDir(s))),
                    LinksMade(Drop(d, Below(DOMAIN d, DynDir(s))), Drop(l, Below(DOMAIN l, DynDir(s))), s),
                    c, np, w)

\* a setup that leaves the flushing to its phases
SetupEndsThere(r) == r
\* setup, last statement: CachedFile.decacheAll()
SetupEnd(r) == IF r.ok THEN decacheAll(r.disk, r.links, r.cache, r.parses, r.written) ELSE r

\* setup: "if not args.staticOnly: self.setupDynamic(args)"
DynamicUnless(staticOnly, r, s) ==
    IF r.ok /\ ~staticOnly THEN setupDynamic(r.disk, r.links, r.cache, r.parses, r.written, s) ELSE r

\* XMLEditor.setup
setup(d, l, c, np, s, staticOnly, dynamicOnly) ==
    SetupEnd(DynamicUnless(staticOnly, IF dynamicOnly THEN Skipped(d, l, c, np)
                                       ELSE setupStatic(d, l, c, np, s), s))

\* XMLEditor.setup(args), with args.staticOnly and args.dynamicOnly; an editor
\* runs the static phase once, before any other operation
SetupOutcome(s, dynamicOnly, r) ==
    /\ InBounds(r.cache)
    /\ disk' = r.disk
    /\ links' = r.links
    /\ cache' = r.cache
    /\ parses' = r.parses
    /\ written' = r.written
    /\ phase' = IF r.ok /\ ~dynamicOnly THEN [phase EXCEPT ![s] = "static"] ELSE phase
    /\ UNCHANGED <<copies, returned>>
    /\ UNCHANGED wsVars

Setup(s, staticOnly, dynamicOnly) ==
    /\ phase[s] # "none"
    /\ ~dynamicOnly => phase[s] = "new"
    /\ SetupOutcome(s, dynamicOnly, setup(disk, links, cache, parses, s, staticOnly, dynamicOnly))

\* the outcome r of getLocalCopy and of the edit operations, taken over
Outcome(s, tag, r) ==
    /\ Len(r.abs) <= Len(scenario_dir_abs(s)) + MaxSuffixLen
    /\ r.copied => Count(copies, <<s, tag>>) < MaxCopies
    /\ InBounds(r.cache)
    /\ disk' = r.disk
    /\ cache' = r.cache
    /\ parses' = r.parses
    /\ copies' = IF r.copied THEN Put(copies, <<s, tag>>, Count(copies, <<s, tag>>) + 1) ELSE copies
    /\ returned' = IF r.abs # NoPath
                   THEN Put(returned, <<s, tag>>, Seen(returned, <<s, tag>>) \cup {<<r.rel, r.abs>>})
                   ELSE returned
    /\ written' = {}
    /\ UNCHANGED <<links, phase>>
    /\ UNCHANGED wsVars

GetLocalCopy(s, tag) ==
    /\ phase[s] = "static"
    /\ Outcome(s, tag, getLocalCopy(disk, cache, parses, s, tag))

\* the element an edit aims at: the one of the reference file, or none
EditTargets == {ByName("data", "e"), ByName("data", "nosuch")}

ReplaceValue(s, tag, xp) ==
    /\ phase[s] = "static"
    /\ Outcome(s, tag, replaceValue(disk, cache, parses, s, tag, xp, PyInt(2)))

Multiply(s, tag, xp) ==
    /\ phase[s] = "static"
    /\ Outcome(s, tag, multiply(disk, cache, parses, s, tag, xp, PyInt(2)))

Add(s, tag, xp) ==
    /\ phase[s] = "static"
    /\ Outcome(s, tag, add(disk, cache, parses, s, tag, xp, PyInt(1)))

\* the arguments setupSolver is called with
Tolerances == {None, NaN, StrText("x"), PyFloat(0), PyFloat(1), PyFloat(MaxVal)}
Counts == {None, StrText("x"), PyInt(0), PyInt(1)}

SetupSolver(s, solutionTolerance, broydenTolerance, maxModelCalcs, maxIterations) ==
    /\ phase[s] = "static"
    /\ Outcome(s, SOLVER_TAG, setupSolver(disk, cache, parses, s, solutionTolerance, broydenTolerance,
                                          maxModelCalcs, maxIterations))

\* the stop periods and years setStopPeriod is called with
StopArgs == {PyInt(v) : v \in {-1, 0, 1, 2, 22, 999, 1000, 2015, 2020}} \cup {StrText("x")}

SetStopPeriod(s, yearOrPeriod) ==
    /\ phase[s] = "static"
    /\ cache' = setStopPeriod(disk, cache, parses, s, yearOrPeriod).cache
    /\ parses' = setStopPeriod(disk, cache, parses, s, yearOrPeriod).parses
    /\ written' = {}
    /\ UNCHANGED <<disk, links, copies, phase, returned>>
    /\ UNCHANGED wsVars

\* the names under which a caller may reach the files of a scenario's
\* directory: through the sandbox, canonically, or through a dynamic link
LocalNames(s) ==
    DirEntries(DOMAIN disk, LocalDir(s))
        \cup {scenario_dir_abs(s) \o <<Basename(f)>> : f \in DirEntries(DOMAIN disk, LocalDir(s))}
        \cup {l \in DOMAIN links : realpath(l) \in DirEntries(DOMAIN disk, LocalDir(s))}

\* the outcome r of an operation on the cache alone, taken over
CacheOutcome(r) ==
    /\ InBounds(r.cache)
    /\ cache' = r.cache
    /\ parses' = r.parses
    /\ written' = {}
    /\ UNCHANGED <<disk, links, copies, phase, returned>>
    /\ UNCHANGED wsVars

\* xmlIns called on a file of the scenario, the parent group present or not
XmlIns(s, filename, parentGrp) ==
    /\ phase[s] = "static"
    /\ filename \in LocalNames(s)
    /\ Basename(filename) # ConfigName
    /\ CacheOutcome(xmlIns(disk, cache, parses, filename, parentGrp, Elt(parentGrp, "n", NumText(1, FALSE))))

\* setConfigValue past getFile: the entry is flagged, then the element sought
SetValueIn(c, np, g, section, name, value) ==
    IF ~g.ok THEN [ok |-> FALSE, cache |-> c, parses |-> np]
    ELSE IF FindFirst(g.cache[g.key].tree, ByName(section, name)) = 0
         THEN [ok |-> FALSE, cache |-> setEdited(g.cache, g.key), parses |-> g.parses]
         ELSE [ok |-> TRUE, parses |-> g.parses,
               cache |-> SetTree(setEdited(g.cache, g.key), g.key,
                                 [g.cache[g.key].tree EXCEPT
                                     !.elts[FindFirst(g.cache[g.key].tree, ByName(section, name))].text =
                                         PyStr(value)])]

\* XMLEditor.setConfigValue(section, name, value)
setConfigValue(d, c, np, s, section, name, value) ==
    SetValueIn(c, np, getFile(d, c, np, cfgPath(s)), section, name, value)

\* str.replace on a text, whole strings only
Replace(text, oldstr, newstr) == IF text = StrText(oldstr) THEN StrText(newstr) ELSE text

\* the elements of a tree, the text of those in nodes replaced
Replaced(t, nodes, oldstr, newstr) ==
    [i \in 1..Len(t.elts) |-> IF i \in nodes THEN [t.elts[i] EXCEPT !.text = Replace(@, oldstr, newstr)]
                              ELSE t.elts[i]]

\* stringReplace past getFile: the entry is flagged, then the nodes sought
ReplaceIn(c, np, g, xp, oldstr, newstr) ==
    IF ~g.ok THEN [ok |-> FALSE, cache |-> c, parses |-> np]
    ELSE [ok |-> TRUE, parses |-> g.parses,
          cache |-> IF SelectAll(g.cache[g.key].tree, xp) = {} THEN setEdited(g.cache, g.key)
                    ELSE SetTree(setEdited(g.cache, g.key), g.key,
                                 [g.cache[g.key].tree EXCEPT
                                     !.elts = Replaced(g.cache[g.key].tree,
                                                       SelectAll(g.cache[g.key].tree, xp), oldstr, newstr)])]

\* XMLEditor.stringReplace(xpath, oldstr, newstr)
stringReplace(d, c, np, s, xp, oldstr, newstr) ==
    ReplaceIn(c, np, getFile(d, c, np, cfgPath(s)), xp, oldstr, newstr)

RemoveAt(seq, i) == SubSeq(seq, 1, i - 1) \o SubSeq(seq, i + 1, Len(seq))


\* deleteScenarioComponent past getFile: the entry is flagged when the
\* element was there and is removed
DeleteIn(c, np, g, name) ==
    IF ~g.ok THEN [ok |-> FALSE, cache |-> c, parses |-> np]
    ELSE [ok |-> TRUE, parses |-> g.parses,
          cache |-> IF FindFirst(g.cache[g.key].tree, ByName("ScenarioComponents", name)) = 0
                    THEN g.cache
                    ELSE setEdited(SetTree(g.cache, g.key,
                            [g.cache[g.key].tree EXCEPT !.elts =
                                RemoveAt(@, FindFirst(g.cache[g.key].tree, ByName("ScenarioComponents", name)))]),
                            g.key)]

\* XMLEditor.deleteScenarioComponent(name)
deleteScenarioComponent(d, c, np, s, name) == DeleteIn(c, np, getFile(d, c, np, cfgPath(s)), name)

SetConfigValue(s, name) ==
    /\ phase[s] = "static"
    /\ CacheOutcome(setConfigValue(disk, cache, parses, s, "Strings", name, StrText(s)))

StringReplace(s, name) ==
    /\ phase[s] = "static"
    /\ CacheOutcome(stringReplace(disk, cache, parses, s, ByName("Strings", name), "Reference", s))

DeleteScenarioComponent(s, name) ==
    /\ phase[s] = "static"
    /\ CacheOutcome(deleteScenarioComponent(disk, cache, parses, s, name))

\* the entries of the ScenarioComponents list, as indexes into the document
Components(tree) == {i \in 1..Len(tree.elts) : tree.elts[i].grp = "ScenarioComponents"}
InsertAt(seq, i, e) == SubSeq(seq, 1, i - 1) \o <<e>> \o SubSeq(seq, i, Len(seq))

\* addScenarioComponent past deleteScenarioComponent(name): the entry is
\* flagged, then ET.SubElement appends the new Value to //ScenarioComponents
AddIn(r, key, name, xmlfile) ==
    IF ~r.ok THEN r
    ELSE IF "ScenarioComponents" \notin r.cache[key].tree.groups
         THEN [ok |-> FALSE, cache |-> setEdited(r.cache, key), parses |-> r.parses]
         ELSE [ok |-> TRUE, parses |-> r.parses,
               cache |-> SetTree(setEdited(r.cache, key), key,
                                 [r.cache[key].tree EXCEPT
                                     !.elts = Append(@, Elt("ScenarioComponents", name, PathText(xmlfile)))])]

\* XMLEditor.addScenarioComponent(name, xmlfile)
addScenarioComponent(d, c, np, s, name, xmlfile) ==
    AddIn(deleteScenarioComponent(d, c, np, s, name), cfgPath(s), name, xmlfile)

\* an insertScenarioComponent that appends when the entry named after is missing
InsertUnchecked(r, key, name, xmlfile, after) ==
    IF ~r.ok THEN r
    ELSE [ok |-> TRUE, parses |-> r.parses,
          cache |-> SetTree(setEdited(r.cache, key), key,
                            [r.cache[key].tree EXCEPT
                                !.elts = InsertAt(@, IF FindFirst(r.cache[key].tree,
                                                                  ByName("ScenarioComponents", after)) = 0
                                                     THEN Len(r.cache[key].tree.elts) + 1
                                                     ELSE FindFirst(r.cache[key].tree,
                                                                    ByName("ScenarioComponents", after)) + 1,
                                                  Elt("ScenarioComponents", name, PathText(xmlfile)))])]

\* insertScenarioComponent past deleteScenarioComponent(name): the entry is
\* flagged, the entry named after is sought, SetupException when there is
\* none, else the new Value goes in at its index + 1
InsertIn(r, key, name, xmlfile, after) ==
    IF ~r.ok THEN r
    ELSE IF FindFirst(r.cache[key].tree, ByName("ScenarioComponents", after)) = 0
         THEN [ok |-> FALSE, cache |-> setEdited(r.cache, key), parses |-> r.parses]
         ELSE [ok |-> TRUE, parses |-> r.parses,
               cache |-> SetTree(setEdited(r.cache, key), key,
                                 [r.cache[key].tree EXCEPT
                                     !.elts = InsertAt(@, FindFirst(r.cache[key].tree,
                                                                    ByName("ScenarioComponents", after)) + 1,
                                                       Elt("ScenarioComponents", name, PathText(xmlfile)))])]

\* XMLEditor.insertScenarioComponent(name, xmlfile, after)
insertScenarioComponent(d, c, np, s, name, xmlfile, after) ==
    InsertIn(deleteScenarioComponent(d, c, np, s, name), cfgPath(s), name, xmlfile, after)

\* the (xpath, value) pairs a caller may pass to xmlEdit with an operation:
\* an element by name, every element of the group, the name attribute of an
\* element, the element xmlIns appends (not there before), a selector that
\* is not well formed
EditValue(op) == IF op = "set" THEN StrText("s") ELSE IF op = "multiply" THEN PyInt(2) ELSE PyInt(1)
EditSelectors == {ByName("data", "e"), XPath("data", "any", "", ""), XPath("data", "name", "e", "name"),
                  ByName("data", "n"), XPath("data", "bad", "", "")}
EditBatches(op) ==
    {<<<<xp, EditValue(op)>>>> : xp \in EditSelectors}
        \cup {<<<<xp1, EditValue(op)>>, <<xp2, EditValue(op)>>>> :
                 xp1 \in EditSelectors, xp2 \in {ByName("data", "e"), XPath("data", "bad", "", "")}}

\* the data files of the baseline editor once it is set up, under the names
\* the editor gives them (scenario_dir_abs/<file>)
DataFiles ==
    IF phase[Baseline] = "static"
    THEN {scenario_dir_abs(Baseline) \o <<Basename(q)>> :
             q \in {x \in DirEntries(DOMAIN disk, LocalDir(Baseline)) : Basename(x) # ConfigName}}
    ELSE {}

\* xmlEdit(filename, pairs, op) called on a data file of the scenario
XmlEdit(s, filename, pairs, op) ==
    /\ phase[s] = "static"
    /\ filename \in LocalNames(s)
    /\ Basename(filename) # ConfigName
    /\ CacheOutcome(xmlEdit(disk, cache, parses, filename, pairs, op))

\* the names and the paths the callers give to scenario components
CompNames == {"F", "x", "y"}
CompPaths == {RefRelPath("F"), <<"A.xml">>, <<"B.xml">>}

AddScenarioComponent(s, name, xmlfile) ==
    /\ phase[s] = "static"
    /\ CacheOutcome(addScenarioComponent(disk, cache, parses, s, name, xmlfile))

InsertScenarioComponent(s, name, xmlfile, after) ==
    /\ phase[s] = "static"
    /\ CacheOutcome(insertScenarioComponent(disk, cache, parses, s, name, xmlfile, after))

UpdateScenarioComponent(s, name, xmlfile) ==
    /\ phase[s] = "static"
    /\ CacheOutcome(updateScenarioComponent(disk, cache, parses, s, name, xmlfile))

RenameScenarioComponent(s, name, xmlfile) ==
    /\ phase[s] = "static"
    /\ CacheOutcome(renameScenarioComponent(disk, cache, parses, s, name, xmlfile))

(***************************************************************************)
(* addMarketConstraint and delMarketConstraint, dynamic and baselinePolicy *)
(* left at False.  An outcome is [ok, cache, parses].                      *)
(***************************************************************************)
Returned(r) == [ok |-> r.ok, cache |-> r.cache, parses |-> r.parses]

\* addMarketConstraint: policyTag, constraintTag, policyXML, constraintXML
AddedPolicyTag(target) == target \o "-policy"
ConstraintTag(target) == target \o "-constraint"
policyXML(s, target, policy) == scenario_dir_rel(s) \o <<target \o "-" \o policy \o ".xml">>
constraintXML(s, target, policy) == scenario_dir_rel(s) \o <<target \o "-" \o policy \o "-constraint.xml">>
\* delMarketConstraint: policyTag
DeletedPolicyTag(target, policy) == target \o "-" \o policy

\* "addOrUpdate = self.updateScenarioComponent if xmlSel(cfg, xpath) else
\* self.addScenarioComponent", called after the outcome r
AddOrUpdate(d, s, found, r, name, xmlfile) ==
    IF ~r.ok THEN Returned(r)
    ELSE IF found THEN Returned(updateScenarioComponent(d, r.cache, r.parses, s, name, xmlfile))
    ELSE Returned(addScenarioComponent(d, r.cache, r.parses, s, name, xmlfile))

\* addMarketConstraint past xmlSel(cfg, xpath): the policy file, then the
\* constraint file
AddBoth(d, s, target, policy, sel) ==
    AddOrUpdate(d, s, sel.found,
                AddOrUpdate(d, s, sel.found, sel, AddedPolicyTag(target), policyXML(s, target, policy)),
                ConstraintTag(target), constraintXML(s, target, policy))

\* XMLEditor.addMarketConstraint(target, policy)
addMarketConstraint(d, c, np, s, target, policy) ==
    AddBoth(d, s, target, policy,
            xmlSel(d, c, np, cfgPath(s), ByName("ScenarioComponents", AddedPolicyTag(target))))

\* delMarketConstraint past the first deleteScenarioComponent
DelConstraint(d, s, target, r) ==
    IF ~r.ok THEN Returned(r)
    ELSE Returned(deleteScenarioComponent(d, r.cache, r.parses, s, ConstraintTag(target)))

\* delMarketConstraint past xmlSel(cfg, xpath): delete both when found
DelBoth(d, s, target, policy, sel) ==
    IF sel.ok /\ sel.found
    THEN DelConstraint(d, s, target,
                       deleteScenarioComponent(d, sel.cache, sel.parses, s, DeletedPolicyTag(target, policy)))
    ELSE Returned(sel)

\* XMLEditor.delMarketConstraint(target, policy)
delMarketConstraint(d, c, np, s, target, policy) ==
    DelBoth(d, s, target, policy,
            xmlSel(d, c, np, cfgPath(s), ByName("ScenarioComponents", DeletedPolicyTag(target, policy))))

\* the targets and policies of the market constraints
Targets == {"corn-etoh", "biodiesel"}
Policies == {"subsidy", "policy"}

AddMarketConstraint(s, target, policy) ==
    /\ phase[s] = "static"
    /\ CacheOutcome(addMarketConstraint(disk, cache, parses, s, target, policy))

DelMarketConstraint(s, target, policy) ==
    /\ phase[s] = "static"
    /\ CacheOutcome(delMarketConstraint(disk, cache, parses, s, target, policy))

\* item.decache() on one cached file
Decache(k) ==
    /\ k \in DOMAIN cache
    /\ disk' = DiskAfterWrite(disk, cache, IF decache(cache, k) THEN {k} ELSE {})
    /\ cache' = CacheAfterWrite(cache, IF decache(cache, k) THEN {k} ELSE {})
    /\ written' = IF decache(cache, k) THEN {k} ELSE {}
    /\ UNCHANGED <<links, parses, copies, phase, returned>>
    /\ UNCHANGED wsVars

\* CachedFile.decacheAll()
DecacheAll ==
    /\ Flush(disk, cache)
    /\ UNCHANGED <<links, parses, copies, phase, returned>>
    /\ UNCHANGED wsVars

\* the trees a caller may ask removeTreeSafely to remove
RemovalCandidates == {RefWorkspace, RefWorkspace \o <<"input">>, SandboxRefWorkspace \o <<"input">>}
                        \cup {scenario_dyn_dir_abs(s) : s \in Scen}

\* utils.removeTreeSafely(path)
RemoveTreeSafely(path) ==
    /\ IF removeTreeRefuses(path)
       THEN UNCHANGED <<disk, links>>
       ELSE /\ disk' = Drop(disk, Below(DOMAIN disk, realpath(path)))
            /\ links' = Drop(links, Below(DOMAIN links, realpath(path)))
    /\ written' = {}
    /\ UNCHANGED <<cache, parses, copies, phase, returned>>
    /\ UNCHANGED wsVars


(***************************************************************************)
(* scenarioSetup.copyWorkspace, run by concurrent processes on one new     *)
(* workspace.  The lock is filelock.FileLock on <workspace>/               *)
(* .creation_semaphore.lock: the file is opened (and created when the path *)
(* names nothing), then flock'ed without blocking, and the attempt is      *)
(* repeated until the flock succeeds.  A lock belongs to the inode.        *)
(***************************************************************************)
Procs == {"p1", "p2"}
Semaphore == ".creation_semaphore"

\* the positions inside the "with filelock.FileLock(lockfile)" block
Critical == {"check", "force", "mark", "copy", "link", "unmark"}

\* copyWorkspace is called: mkdirs(newWorkspace)
Start(p) ==
    /\ pc[p] = "idle"
    /\ \E f \in BOOLEAN : force' = [force EXCEPT ![p] = f]
    /\ pc' = [pc EXCEPT ![p] = "open"]
    /\ UNCHANGED <<wsFiles, lockInode, held, locked, nextInode>>
    /\ UNCHANGED fsVars

\* FileLock acquire, first half: os.open(lockfile, O_RDWR | O_CREAT | O_TRUNC)
OpenLock(p) ==
    /\ pc[p] = "open"
    /\ IF lockInode = 0
       THEN /\ nextInode <= MaxInodes
            /\ lockInode' = nextInode
            /\ nextInode' = nextInode + 1
            /\ held' = [held EXCEPT ![p] = nextInode]
       ELSE /\ held' = [held EXCEPT ![p] = lockInode]
            /\ UNCHANGED <<lockInode, nextInode>>
    /\ pc' = [pc EXCEPT ![p] = "flock"]
    /\ UNCHANGED <<wsFiles, locked, force>>
    /\ UNCHANGED fsVars

\* fcntl.flock(fd, LOCK_EX | LOCK_NB) succeeds when no other descriptor holds
\* the lock of the same inode
FlockSucceeds(p) == \A q \in Procs \ {p} : ~(locked[q] /\ held[q] = held[p])

\* FileLock acquire, second half: flock, or close the descriptor and poll again
Flock(p) ==
    /\ pc[p] = "flock"
    /\ IF FlockSucceeds(p)
       THEN /\ locked' = [locked EXCEPT ![p] = TRUE]
            /\ pc' = [pc EXCEPT ![p] = "check"]
            /\ UNCHANGED held
       ELSE /\ held' = [held EXCEPT ![p] = 0]
            /\ pc' = [pc EXCEPT ![p] = "open"]
            /\ UNCHANGED locked
    /\ UNCHANGED <<wsFiles, lockInode, force, nextInode>>
    /\ UNCHANGED fsVars

\* a leftover semaphore file forces the re-creation
CheckSemaphore(p) ==
    /\ pc[p] = "check"
    /\ IF Semaphore \in wsFiles
       THEN /\ wsFiles' = wsFiles \ {Semaphore}
            /\ force' = [force EXCEPT ![p] = TRUE]
       ELSE UNCHANGED <<wsFiles, force>>
    /\ pc' = [pc EXCEPT ![p] = "force"]
    /\ UNCHANGED <<lockInode, held, locked, nextInode>>
    /\ UNCHANGED fsVars

\* if forceCreate: shutil.rmtree(newWorkspace, ignore_errors=True); mkdirs.
\* The lock file lies in the workspace: where an open file can be unlinked,
\* its path is removed with the rest; where it cannot, the error is ignored.
ForceCreate(p) ==
    /\ pc[p] = "force"
    /\ IF force[p]
       THEN /\ wsFiles' = {}
            /\ \E unlinked \in BOOLEAN : lockInode' = IF unlinked THEN 0 ELSE lockInode
       ELSE UNCHANGED <<wsFiles, lockInode>>
    /\ pc' = [pc EXCEPT ![p] = "mark"]
    /\ UNCHANGED <<held, locked, force, nextInode>>
    /\ UNCHANGED fsVars

\* open(semaphoreFile, 'w').close()
Mark(p) ==
    /\ pc[p] = "mark"
    /\ wsFiles' = wsFiles \cup {Semaphore}
    /\ pc' = [pc EXCEPT ![p] = "copy"]
    /\ UNCHANGED <<lockInode, held, locked, force, nextInode>>
    /\ UNCHANGED fsVars

\* the files to copy are copied
CopyFiles(p) ==
    /\ pc[p] = "copy"
    /\ wsFiles' = wsFiles \cup {"copied"}
    /\ pc' = [pc EXCEPT ![p] = "link"]
    /\ UNCHANGED <<lockInode, held, locked, force, nextInode>>
    /\ UNCHANGED fsVars

\* the files to link are linked, local-xml and dyn-xml are made
LinkFiles(p) ==
    /\ pc[p] = "link"
    /\ wsFiles' = wsFiles \cup {"linked", LOCAL_XML_NAME, DYN_XML_NAME}
    /\ pc' = [pc EXCEPT ![p] = "unmark"]
    /\ UNCHANGED <<lockInode, held, locked, force, nextInode>>
    /\ UNCHANGED fsVars

\* os.remove(semaphoreFile), then the with block releases the lock; the
\* block also ends, by an exception, when the semaphore file is gone
Unmark(p) ==
    /\ pc[p] = "unmark"
    /\ wsFiles' = wsFiles \ {Semaphore}
    /\ locked' = [locked EXCEPT ![p] = FALSE]
    /\ held' = [held EXCEPT ![p] = 0]
    /\ pc' = [pc EXCEPT ![p] = "idle"]
    /\ UNCHANGED <<lockInode, force, nextInode>>
    /\ UNCHANGED fsVars

\* the process dies inside the block: the OS closes its descriptor
Crash(p) ==
    /\ pc[p] \in Critical
    /\ locked' = [locked EXCEPT ![p] = FALSE]
    /\ held' = [held EXCEPT ![p] = 0]
    /\ pc' = [pc EXCEPT ![p] = "idle"]
    /\ UNCHANGED <<wsFiles, lockInode, force, nextInode>>
    /\ UNCHANGED fsVars

(***************************************************************************)
(* The specifications.                                                     *)
(***************************************************************************)
\* a file a previous run left in the policy scenario's directory
StalePath == SandboxRefWorkspace \o <<LOCAL_XML_NAME, GroupDir, Policy, FileOf("F")>>
StaleDoc == [groups |-> {"data"}, elts |-> <<Elt("data", "e", NumText(2, TRUE))>>]

(***************************************************************************)
(* scenarioSetup.createSandbox and copyWorkspace as one caller runs them,  *)
(* on directories whose entries are files, directories or links.  Each     *)
(* call gives the directories it leaves, the file-system effects it had    *)
(* ("mkdir", "create", "copy", "link", "delete") and the error it raised.  *)
(***************************************************************************)
LockFile == ".creation_semaphore.lock"
Sandboxes == {xmlOutputRoot(Baseline), xmlOutputRoot(Policy)}
WorkDirs == {SandboxRefWorkspace} \cup Sandboxes
FilesToCopy == {"copied"}
FilesToLink == {"linked"}

NoDir == [exists |-> FALSE, ents |-> EmptyFn]
EmptyDir == [exists |-> TRUE, ents |-> EmptyFn]
NoDirs == [d \in WorkDirs |-> NoDir]
NoSandbox == wsDirs = NoDirs

\* the reference workspace is complete and is never written
DirExists(ds, d) == d = RefWorkspace \/ ds[d].exists
Has(ds, d, n) == IF d = RefWorkspace THEN TRUE ELSE ds[d].exists /\ n \in DOMAIN ds[d].ents
IsLink(ds, d, n) == d # RefWorkspace /\ Has(ds, d, n) /\ ds[d].ents[n] = "link"
\* os.path.samefile of two existing directories
samefile(a, b) == a = b

Began(ds) == [error |-> "", dirs |-> ds, did |-> {}]
Fails(st, error) == [st EXCEPT !.error = error]
Running(st) == st.error = ""

\* utils.mkdirs of a workspace directory
Mkdirs(st, d) ==
    IF DirExists(st.dirs, d) THEN st
    ELSE [st EXCEPT !.dirs[d] = EmptyDir, !.did = @ \cup {"mkdir"}]

MkEntry(st, d, n, kind, effect) ==
    [st EXCEPT !.dirs[d].ents = Put(@, n, kind), !.did = @ \cup {effect}]

RmEntry(st, d, n) ==
    IF Has(st.dirs, d, n)
    THEN [st EXCEPT !.dirs[d].ents = Drop(@, {n}), !.did = @ \cup {"delete"}]
    ELSE st

\* utils.mkdirs of a directory inside a workspace directory
MkSubdir(st, d, n) == IF Has(st.dirs, d, n) THEN st ELSE MkEntry(st, d, n, "dir", "mkdir")

\* shutil.rmtree(d, ignore_errors=True)
Rmtree(st, d) ==
    IF DirExists(st.dirs, d)
    THEN [st EXCEPT !.dirs[d] = NoDir, !.did = @ \cup {"delete"}]
    ELSE st

\* _workspaceLinkOrCopy, after the destination was removed where it must be
LinkOrCopyMissing(st, n, srcWorkspace, dstWorkspace, copyFiles) ==
    IF Has(st.dirs, dstWorkspace, n) THEN st
    ELSE IF ~copyFiles THEN MkEntry(st, dstWorkspace, n, "link", "link")
    ELSE IF Has(st.dirs, srcWorkspace, n) THEN MkEntry(st, dstWorkspace, n, "file", "copy")
    ELSE Fails(st, "IOError")

\* _workspaceLinkOrCopy: a link at the destination is always removed, anything
\* else only when a link replaces it
_workspaceLinkOrCopy(st, n, srcWorkspace, dstWorkspace, copyFiles) ==
    IF ~Running(st) THEN st
    ELSE LinkOrCopyMissing(
             IF Has(st.dirs, dstWorkspace, n) /\ (~(copyFiles \/ CopyAllFiles) \/ IsLink(st.dirs, dstWorkspace, n))
             THEN RmEntry(st, dstWorkspace, n) ELSE st,
             n, srcWorkspace, dstWorkspace, copyFiles \/ CopyAllFiles)

RECURSIVE LinkOrCopyAll(_, _, _, _, _)
LinkOrCopyAll(st, names, srcWorkspace, dstWorkspace, copyFiles) ==
    IF names = {} THEN st
    ELSE LinkOrCopyAll(_workspaceLinkOrCopy(st, (CHOOSE n \in names : TRUE), srcWorkspace, dstWorkspace, copyFiles),
                       names \ {(CHOOSE n \in names : TRUE)}, srcWorkspace, dstWorkspace, copyFiles)

\* copyWorkspace inside the lock, once the semaphore file is written: the
\* files are copied and linked, local-xml and dyn-xml made, the semaphore removed
Populated(st, newWorkspace) ==
    IF ~Running(st) THEN st
    ELSE RmEntry(MkSubdir(MkSubdir(st, newWorkspace, LOCAL_XML_NAME), newWorkspace, DYN_XML_NAME),
                 newWorkspace, Semaphore)

CopyAndLink(st, srcWorkspace, dstWorkspace) ==
    LinkOrCopyAll(LinkOrCopyAll(st, FilesToCopy, srcWorkspace, dstWorkspace, TRUE),
                  FilesToLink, srcWorkspace, dstWorkspace, FALSE)

\* mkdirs(newWorkspace); open(semaphoreFile, 'w').close()
Marked(st, newWorkspace) == MkEntry(Mkdirs(st, newWorkspace), newWorkspace, Semaphore, "file", "create")

\* a leftover semaphore file is removed and forces the re-creation
Recreated(st, newWorkspace, forceCreate) ==
    IF Has(st.dirs, newWorkspace, Semaphore)
    THEN Rmtree(RmEntry(st, newWorkspace, Semaphore), newWorkspace)
    ELSE IF forceCreate THEN Rmtree(st, newWorkspace) ELSE st

\* mkdirs(newWorkspace), and FileLock opens the lock file, creating it if missing
LockOpened(st, newWorkspace) ==
    IF Has(Mkdirs(st, newWorkspace).dirs, newWorkspace, LockFile) THEN Mkdirs(st, newWorkspace)
    ELSE MkEntry(Mkdirs(st, newWorkspace), newWorkspace, LockFile, "file", "create")

\* copyWorkspace up to the writing of the semaphore file
CopyBegun(ds, newWorkspace, forceCreate) ==
    Marked(Recreated(LockOpened(Began(ds), newWorkspace), newWorkspace, forceCreate), newWorkspace)

copyWorkspace(ds, newWorkspace, refWorkspace, forceCreate) ==
    IF DirExists(ds, newWorkspace) /\ samefile(newWorkspace, refWorkspace)
    THEN Fails(Began(ds), "SetupException")
    ELSE Populated(CopyAndLink(CopyBegun(ds, newWorkspace, forceCreate), refWorkspace, newWorkspace),
                   newWorkspace)

\* _remakeSymLink: a link of that name is removed; os.symlink fails on
\* anything else of that name
_remakeSymLink(st, d, n) ==
    IF ~Running(st) THEN st
    ELSE IF IsLink(st.dirs, d, n) THEN MkEntry(RmEntry(st, d, n), d, n, "link", "link")
    ELSE IF Has(st.dirs, d, n) THEN Fails(st, "OSError")
    ELSE MkEntry(st, d, n, "link", "link")

\* the output directory: _setupTempOutputDir removes it first in mcsMode
OutputDir(st, sandbox, mcsMode) ==
    IF ~Running(st) THEN st
    ELSE IF mcsMode # FALSE THEN MkSubdir(RmEntry(st, sandbox, "output"), sandbox, "output")
    ELSE MkSubdir(st, sandbox, "output")

\* if forceCreate: rmtree(sandbox), os.mkdir(sandbox); then mkdirs(sandbox/exe/logs)
SandboxDirMade(st, sandbox, forceCreate) ==
    MkSubdir(Mkdirs(IF forceCreate THEN Rmtree(st, sandbox) ELSE st, sandbox), sandbox, "exe")

\* createSandbox past its check of the sandbox against the workspace
SandboxMade(st, sandbox, srcWorkspace, forceCreate, mcsMode) ==
    _remakeSymLink(
        _remakeSymLink(
            OutputDir(CopyAndLink(SandboxDirMade(st, sandbox, forceCreate), srcWorkspace, sandbox),
                      sandbox, mcsMode),
            sandbox, DYN_XML_NAME),
        sandbox, LOCAL_XML_NAME)

\* createSandbox after the workspace was set up on demand
SandboxChecked(st, sandbox, srcWorkspace, forceCreate, mcsMode) ==
    IF ~Running(st) THEN st
    ELSE IF DirExists(st.dirs, sandbox) /\ ~DirExists(st.dirs, srcWorkspace) THEN Fails(st, "OSError")
    ELSE IF DirExists(st.dirs, sandbox) /\ samefile(sandbox, srcWorkspace) THEN Fails(st, "SetupException")
    ELSE SandboxMade(st, sandbox, srcWorkspace, forceCreate, mcsMode)

createSandbox(ds, sandbox, srcWorkspace, forceCreate, mcsMode) ==
    SandboxChecked(IF mcsMode = FALSE
                   THEN copyWorkspace(ds, srcWorkspace, RefWorkspace, FALSE)
                   ELSE Began(ds),
                   sandbox, srcWorkspace, forceCreate, mcsMode)

SandboxArgs == Sandboxes \cup {SandboxRefWorkspace}
SourceArgs == {SandboxRefWorkspace, RefWorkspace}

CreateSandbox(sandbox, srcWorkspace, forceCreate, mcsMode) ==
    /\ wsDirs' = createSandbox(wsDirs, sandbox, srcWorkspace, forceCreate, mcsMode).dirs
    /\ UNCHANGED <<disk, links, cache, parses, copies, phase, returned, written, version, yearSeq, yearResult>>
    /\ UNCHANGED <<wsFiles, lockInode, pc, held, locked, force, nextInode, jug>>

CopyWorkspace(newWorkspace, forceCreate) ==
    /\ wsDirs' = copyWorkspace(wsDirs, newWorkspace, RefWorkspace, forceCreate).dirs
    /\ UNCHANGED <<disk, links, cache, parses, copies, phase, returned, written, version, yearSeq, yearResult>>
    /\ UNCHANGED <<wsFiles, lockInode, pc, held, locked, force, nextInode, jug>>

\* the caller dies in copyWorkspace once the semaphore file is written
CopyWorkspaceKilled(newWorkspace, forceCreate) ==
    /\ ~(DirExists(wsDirs, newWorkspace) /\ samefile(newWorkspace, RefWorkspace))
    /\ wsDirs' = CopyBegun(wsDirs, newWorkspace, forceCreate).dirs
    /\ UNCHANGED <<disk, links, cache, parses, copies, phase, returned, written, version, yearSeq, yearResult>>
    /\ UNCHANGED <<wsFiles, lockInode, pc, held, locked, force, nextInode, jug>>

(***************************************************************************)
(* jugWorker: one trial.  runBaseline and runPolicy are jug tasks: jug     *)
(* runs runPolicy(runBaseline(context), policy) once the baseline task has *)
(* a result.  Each step function returns a Result whose status is drawn    *)
(* at random, 0 for success.                                               *)
(***************************************************************************)
scenarios == {Policy, Leaf}
Statuses == {0, 1}
simId == 1
trials == <<1>>

Context(scenario) == [simId |-> simId, trialNum |-> trials[1], scenario |-> scenario]
Result(status, context, step, policy, value) ==
    [status |-> status, context |-> context, step |-> step, policy |-> policy, value |-> value]
NoResult == Result(0, Context(""), "", "", 0)

\* "if result.status: return result"
StopsNever(result) == FALSE
Stops(result) == result.status # 0

Ran(log, result) == Append(log, [scenario |-> result.context.scenario, step |-> result.step, status |-> result.status])

Task(at, result, log) == [at |-> at, result |-> result, log |-> log]
NoTrial == jug = [base |-> Task("runGCAM", NoResult, <<>>),
                  pol |-> [p \in scenarios |-> Task("waiting", NoResult, <<>>)]]

\* a step of a task: the step function's result is returned if it stops
\* the chain, else the task goes on with the next step
StepTo(task, result, next) ==
    Task(IF Stops(result) THEN "done" ELSE next, result, Ran(task.log, result))

\* runBaseline -> runScenario: runGCAM
BaselineRunGCAM(status) ==
    /\ jug.base.at = "runGCAM"
    /\ jug' = [jug EXCEPT !.base = StepTo(@, Result(status, Context(Baseline), "runGCAM", "", 0), "runQueries")]
    /\ UNCHANGED <<disk, links, cache, parses, copies, phase, returned, written, version, yearSeq, yearResult>>
    /\ UNCHANGED <<wsFiles, lockInode, pc, held, locked, force, nextInode, wsDirs>>

\* runBaseline -> runScenario: runQueries, whose result is returned as it is
BaselineRunQueries(status) ==
    /\ jug.base.at = "runQueries"
    /\ jug' = [jug EXCEPT !.base = StepTo(@, Result(status, Context(Baseline), "runQueries", "", 0), "done")]
    /\ UNCHANGED <<disk, links, cache, parses, copies, phase, returned, written, version, yearSeq, yearResult>>
    /\ UNCHANGED <<wsFiles, lockInode, pc, held, locked, force, nextInode, wsDirs>>

\* jug starts runPolicy when the baseline task has its result: a failing
\* baseline result is returned at once
RunPolicy(policy) ==
    /\ jug.base.at = "done"
    /\ jug.pol[policy].at = "waiting"
    /\ jug' = [jug EXCEPT !.pol[policy] =
                   IF Stops(jug.base.result)
                   THEN Task("done", jug.base.result, @.log)
                   ELSE Task("runGCAM", @.result, @.log)]
    /\ UNCHANGED <<disk, links, cache, parses, copies, phase, returned, written, version, yearSeq, yearResult>>
    /\ UNCHANGED <<wsFiles, lockInode, pc, held, locked, force, nextInode, wsDirs>>

\* runPolicy -> runScenario(Context(simId, trialNum, policy)): runGCAM
PolicyRunGCAM(policy, status) ==
    /\ jug.pol[policy].at = "runGCAM"
    /\ jug' = [jug EXCEPT !.pol[policy] = StepTo(@, Result(status, Context(policy), "runGCAM", "", 0), "runQueries")]
    /\ UNCHANGED <<disk, links, cache, parses, copies, phase, returned, written, version, yearSeq, yearResult>>
    /\ UNCHANGED <<wsFiles, lockInode, pc, held, locked, force, nextInode, wsDirs>>

\* runPolicy -> runScenario: runQueries
PolicyRunQueries(policy, status) ==
    /\ jug.pol[policy].at = "runQueries"
    /\ jug' = [jug EXCEPT !.pol[policy] = StepTo(@, Result(status, Context(policy), "runQueries", "", 0), "runDiffs")]
    /\ UNCHANGED <<disk, links, cache, parses, copies, phase, returned, written, version, yearSeq, yearResult>>
    /\ UNCHANGED <<wsFiles, lockInode, pc, held, locked, force, nextInode, wsDirs>>

\* runPolicy: runDiffs(context, policy), in the baseline's context
RunDiffs(policy, status) ==
    /\ jug.pol[policy].at = "runDiffs"
    /\ jug' = [jug EXCEPT !.pol[policy] = StepTo(@, Result(status, jug.base.result.context, "runDiffs", policy, 0), "computeCI")]
    /\ UNCHANGED <<disk, links, cache, parses, copies, phase, returned, written, version, yearSeq, yearResult>>
    /\ UNCHANGED <<wsFiles, lockInode, pc, held, locked, force, nextInode, wsDirs>>

\* the end of runPolicy: computeCI's result if it stops the chain, else a
\* Result of status 0 and step 'CI' with computeCI's value
PolicyReturns(task, result) ==
    Task("done",
         IF Stops(result) THEN result
         ELSE Result(0, result.context, "CI", result.policy, result.value),
         Ran(task.log, result))

\* runPolicy: computeCI(context, policy), which always gives status 0
ComputeCI(policy, ci) ==
    /\ jug.pol[policy].at = "computeCI"
    /\ jug' = [jug EXCEPT !.pol[policy] =
                   PolicyReturns(@, Result(0, jug.base.result.context, "computeCI", policy, ci))]
    /\ UNCHANGED <<disk, links, cache, parses, copies, phase, returned, written, version, yearSeq, yearResult>>
    /\ UNCHANGED <<wsFiles, lockInode, pc, held, locked, force, nextInode, wsDirs>>

\* expandYearRanges has not been called
NotCalled == [ok |-> FALSE, error |-> "not called", echo |-> <<>>, result |-> <<>>]
NoYears == yearSeq = <<>> /\ yearResult = NotCalled

\* nothing parsed, no editor constructed, no process in copyWorkspace
InitEmpty ==
    /\ links = EmptyFn
    /\ cache = EmptyFn
    /\ parses = EmptyFn
    /\ copies = EmptyFn
    /\ phase = [s \in Scen |-> "none"]
    /\ returned = EmptyFn
    /\ written = {}
    /\ wsFiles = {}
    /\ lockInode = 0
    /\ pc = [p \in Procs |-> "idle"]
    /\ held = [p \in Procs |-> 0]
    /\ locked = [p \in Procs |-> FALSE]
    /\ force = [p \in Procs |-> FALSE]
    /\ nextInode = 1

Init ==
    /\ disk = (RefConfigFile :> RefConfigDoc) @@ (RefDataPath("F") :> RefDataDoc) @@ (StalePath :> StaleDoc)
    /\ version = "4.3"
    /\ InitEmpty
    /\ NoYears
    /\ NoSandbox
    /\ NoTrial

\* The reference workspace of either version: before 4.3 its configuration
\* names the interest-rate component like another one
InterestRelPath == socioeconomics_dir_rel \o <<"interest_rate.xml">>
InterestRefPath == RefWorkspace \o <<"input", "socioeconomics-xml", "interest_rate.xml">>
RefConfigOf(v) ==
    [groups |-> {"Strings", "ScenarioComponents"},
     elts |-> <<Elt("Strings", "scenarioName", StrText("Reference")),
                Elt("ScenarioComponents", "F", PathText(RefRelPath("F"))),
                Elt("ScenarioComponents", IF v = "4.2" THEN "F" ELSE "interest_rate", PathText(InterestRelPath))>>]

InitSetup ==
    /\ version \in Versions
    /\ disk = (RefConfigFile :> RefConfigOf(version)) @@ (RefDataPath("F") :> RefDataDoc)
                  @@ (InterestRefPath :> RefDataDoc)
    /\ InitEmpty
    /\ NoYears
    /\ NoSandbox
    /\ NoTrial

\* One editor, of the baseline scenario, with every operation and every flush
Next ==
    \/ Construct(Baseline)
    \/ SetupStatic(Baseline)
    \/ SetupDynamic(Baseline)
    \/ \E tag \in Tags : GetLocalCopy(Baseline, tag)
    \/ \E tag \in Tags, xp \in EditTargets : ReplaceValue(Baseline, tag, xp)
    \/ \E tag \in Tags, xp \in EditTargets : Multiply(Baseline, tag, xp)
    \/ \E tag \in Tags, xp \in EditTargets : Add(Baseline, tag, xp)
    \/ \E f \in LocalNames(Baseline), g \in {"data", "nosuch"} : XmlIns(Baseline, f, g)
    \/ \E n \in {"scenarioName", "nosuch"} : SetConfigValue(Baseline, n)
    \/ \E n \in {"scenarioName", "nosuch"} : StringReplace(Baseline, n)
    \/ \E n \in Tags \cup {"nosuch"} : DeleteScenarioComponent(Baseline, n)
    \/ \E k \in DOMAIN cache : Decache(k)
    \/ DecacheAll
    \/ \E path \in RemovalCandidates : RemoveTreeSafely(path)

Spec == Init /\ [][Next]_vars

\* The editors of a chain of scenarios, baseline -> policy -> leaf, each
\* set up from its parent, materializing and editing the shared component
NextChain ==
    \/ \E s \in Scen : Construct(s)
    \/ \E s \in Scen : SetupStatic(s)
    \/ \E s \in Scen, tag \in Tags : GetLocalCopy(s, tag)
    \/ \E s \in Scen, tag \in Tags : ReplaceValue(s, tag, ByName("data", "e"))
    \/ \E s \in Scen, tag \in Tags : Multiply(s, tag, ByName("data", "e"))
    \/ DecacheAll

SpecChain == Init /\ [][NextChain]_vars

\* Two processes calling copyWorkspace on the same new workspace
NextWS ==
    \E p \in Procs :
        \/ Start(p)
        \/ OpenLock(p)
        \/ Flock(p)
        \/ CheckSemaphore(p)
        \/ ForceCreate(p)
        \/ Mark(p)
        \/ CopyFiles(p)
        \/ LinkFiles(p)
        \/ Unmark(p)
        \/ Crash(p)

SpecWS == Init /\ [][NextWS]_vars

\* One caller creating the workspace and the sandboxes of two scenarios
NextSandbox ==
    \/ \E sandbox \in SandboxArgs, srcWorkspace \in SourceArgs, forceCreate \in BOOLEAN, mcsMode \in BOOLEAN :
           CreateSandbox(sandbox, srcWorkspace, forceCreate, mcsMode)
    \/ \E newWorkspace \in SourceArgs, forceCreate \in BOOLEAN : CopyWorkspace(newWorkspace, forceCreate)
    \/ \E forceCreate \in BOOLEAN : CopyWorkspaceKilled(SandboxRefWorkspace, forceCreate)

InitBare ==
    /\ disk = (RefConfigFile :> RefConfigDoc) @@ (RefDataPath("F") :> RefDataDoc)
    /\ version = "4.3"
    /\ InitEmpty
    /\ NoYears
    /\ NoSandbox
    /\ NoTrial

SpecSandbox == InitBare /\ [][NextSandbox]_vars

\* The tasks of one trial with two policy scenarios, as jug runs them
CIValues == 0..MaxVal
NextJug ==
    \/ \E status \in Statuses : BaselineRunGCAM(status)
    \/ \E status \in Statuses : BaselineRunQueries(status)
    \/ \E policy \in scenarios : RunPolicy(policy)
    \/ \E policy \in scenarios, status \in Statuses : PolicyRunGCAM(policy, status)
    \/ \E policy \in scenarios, status \in Statuses : PolicyRunQueries(policy, status)
    \/ \E policy \in scenarios, status \in Statuses : RunDiffs(policy, status)
    \/ \E policy \in scenarios, ci \in CIValues : ComputeCI(policy, ci)

SpecJug == InitBare /\ [][NextJug]_vars

\* The baseline's directory holds, from before the run, a symbolic link
\* named as the local copy of F and pointing to the shared reference file
LinkedCopy == ResolveDirs(scenario_dir_abs(Baseline) \o <<FileOf("F")>>)
InitLink ==
    /\ disk = (RefConfigFile :> RefConfigDoc) @@ (RefDataPath("F") :> RefDataDoc)
    /\ version = "4.3"
    /\ links = (LinkedCopy :> RefDataPath("F"))
    /\ cache = EmptyFn
    /\ parses = EmptyFn
    /\ copies = EmptyFn
    /\ phase = [s \in Scen |-> "none"]
    /\ returned = EmptyFn
    /\ written = {}
    /\ wsFiles = {}
    /\ lockInode = 0
    /\ pc = [p \in Procs |-> "idle"]
    /\ held = [p \in Procs |-> 0]
    /\ locked = [p \in Procs |-> FALSE]
    /\ force = [p \in Procs |-> FALSE]
    /\ nextInode = 1
    /\ NoYears
    /\ NoSandbox
    /\ NoTrial

NextLink ==
    \/ \E s \in {Baseline, Policy} : Construct(s)
    \/ \E s \in {Baseline, Policy} : SetupStatic(s)
    \/ \E s \in {Baseline, Policy} : GetLocalCopy(s, "F")
    \/ \E xp \in EditTargets : ReplaceValue(Baseline, "F", xp)
    \/ \E s \in {Baseline, Policy}, xp \in EditTargets : Multiply(s, "F", xp)
    \/ \E xp \in EditTargets : Add(Baseline, "F", xp)
    \/ \E k \in DOMAIN cache : Decache(k)
    \/ DecacheAll

SpecLink == InitLink /\ [][NextLink]_vars

\* One editor, of the baseline scenario, working on the ScenarioComponents
\* list of its configuration
NextReg ==
    \/ Construct(Baseline)
    \/ SetupStatic(Baseline)
    \/ \E n \in CompNames, f \in CompPaths : AddScenarioComponent(Baseline, n, f)
    \/ \E n \in CompNames, f \in CompPaths, a \in CompNames : InsertScenarioComponent(Baseline, n, f, a)
    \/ \E n \in CompNames, f \in CompPaths : UpdateScenarioComponent(Baseline, n, f)
    \/ \E n \in CompNames : DeleteScenarioComponent(Baseline, n)
    \/ \E n \in CompNames, f \in CompPaths : RenameScenarioComponent(Baseline, n, f)

SpecReg == Init /\ [][NextReg]_vars

\* One editor, of the baseline scenario, applying batches of edits to its
\* copy of the data file
NextEdit ==
    \/ Construct(Baseline)
    \/ SetupStatic(Baseline)
    \/ \E tag \in Tags : GetLocalCopy(Baseline, tag)
    \/ \E f \in LocalNames(Baseline) : XmlIns(Baseline, f, "data")
    \/ \E f \in DataFiles, op \in legalOps \cup {"divide"} :
          \E pairs \in EditBatches(op) : XmlEdit(Baseline, f, pairs, op)
    \/ DecacheAll

SpecEdit == Init /\ [][NextEdit]_vars

\* The editors of a baseline and of a scenario derived from it, each set up
\* by setup() under every combination of its flags, with components
\* materialized, edited and renamed in between
SetupScen == {Baseline, Policy}
NextSetup ==
    \/ \E s \in SetupScen : Construct(s)
    \/ \E s \in SetupScen, staticOnly \in BOOLEAN, dynamicOnly \in BOOLEAN : Setup(s, staticOnly, dynamicOnly)
    \/ \E s \in SetupScen : GetLocalCopy(s, "interest_rate")
    \/ ReplaceValue(Baseline, "F", ByName("data", "e"))
    \/ RenameScenarioComponent(Baseline, "x", InterestRelPath)

SpecSetup == InitSetup /\ [][NextSetup]_vars

\* A process that makes editors for the same scenarios more than once
NextAgain ==
    \/ \E s \in SetupScen : Construct(s)
    \/ \E s \in SetupScen : ConstructAgain(s)
    \/ \E s \in SetupScen : SetupStatic(s)
    \/ \E s \in SetupScen : GetLocalCopy(s, "F")
    \/ \E s \in SetupScen : Multiply(s, "F", ByName("data", "e"))
    \/ \E s \in SetupScen : SetConfigValue(s, "scenarioName")
    \/ DecacheAll

SpecAgain == Init /\ [][NextAgain]_vars

\* One editor, of the baseline scenario, setting up the solver, on a
\* reference workspace whose configuration has the solver component
SolverRelPath == <<"..", "input", "solver.xml">>
SolverDoc == [groups |-> {"solver"},
              elts |-> <<Elt("solver", "solution-tolerance", NumText(1, TRUE)),
                         Elt("solver", "max-model-calcs", NumText(2, FALSE))>>]
SolverConfigDoc ==
    [groups |-> {"Strings", "ScenarioComponents"},
     elts |-> <<Elt("Strings", "scenarioName", StrText("Reference")),
                Elt("ScenarioComponents", SOLVER_TAG, PathText(SolverRelPath))>>]

InitSolver ==
    /\ version = "4.3"
    /\ disk = (RefConfigFile :> SolverConfigDoc) @@ (RefWorkspace \o <<"input", "solver.xml">> :> SolverDoc)
    /\ InitEmpty
    /\ NoYears
    /\ NoSandbox
    /\ NoTrial

NextSolver ==
    \/ Construct(Baseline)
    \/ SetupStatic(Baseline)
    \/ GetLocalCopy(Baseline, SOLVER_TAG)
    \/ \E st \in Tolerances, bt \in Tolerances, mc \in Counts, mi \in Counts : SetupSolver(Baseline, st, bt, mc, mi)
    \/ Multiply(Baseline, SOLVER_TAG, SolverXPath("max-model-calcs"))
    \/ DecacheAll

SpecSolver == InitSolver /\ [][NextSolver]_vars

\* The editors of a baseline and of a scenario derived from it, setting
\* the stop period in a configuration that has the field
StopConfigDoc ==
    [groups |-> {"Strings", "Ints"},
     elts |-> <<Elt("Strings", "scenarioName", StrText("Reference")),
                Elt("Ints", "stop-period", NumText(-1, FALSE))>>]

InitStop ==
    /\ version = "4.3"
    /\ disk = (RefConfigFile :> StopConfigDoc)
    /\ InitEmpty
    /\ NoYears
    /\ NoSandbox
    /\ NoTrial

NextStop ==
    \/ \E s \in SetupScen : Construct(s)
    \/ \E s \in SetupScen : SetupStatic(s)
    \/ \E s \in SetupScen, v \in StopArgs : SetStopPeriod(s, v)
    \/ DecacheAll

SpecStop == InitStop /\ [][NextStop]_vars

\* The editors of a baseline and of a scenario derived from it, adding and
\* deleting market constraints in their configurations
NextMarket ==
    \/ \E s \in SetupScen : Construct(s)
    \/ \E s \in SetupScen : SetupStatic(s)
    \/ \E s \in SetupScen, target \in Targets, policy \in Policies : AddMarketConstraint(s, target, policy)
    \/ \E s \in SetupScen, target \in Targets, policy \in Policies : DelMarketConstraint(s, target, policy)
    \/ DeleteScenarioComponent(Baseline, ConstraintTag("corn-etoh"))
    \/ DecacheAll

SpecMarket == Init /\ [][NextMarket]_vars

\* expandYearRanges called on a sequence of up to MaxEntries pairs, the
\* years single or ranges, with and without step, well formed or not
FirstYears == {<<"2", "0", "2", "0">>, <<"2", "0", "3", "5">>, <<"a", "b", "c", "d">>}
LastYears == {<<"2", "0", "2", "4">>, <<"2", "0", "3", "0">>}
YearSteps == {<<>>, <<":", "1">>, <<":", "3">>, <<":", "0">>, <<":", "x">>}
YearSpecs == FirstYears \cup LastYears
                 \cup {a \o <<"-">> \o b \o st : a \in FirstYears, b \in LastYears, st \in YearSteps}
YearInputs == UNION {[1..n -> YearSpecs \X {PyInt(1)}] : n \in 1..MaxEntries}

InitYears ==
    /\ version = "4.3"
    /\ disk = EmptyFn
    /\ InitEmpty
    /\ yearSeq \in YearInputs
    /\ yearResult = NotCalled
    /\ NoSandbox
    /\ NoTrial

ExpandYearRanges ==
    /\ yearResult = NotCalled
    /\ yearResult' = expandYearRanges(yearSeq)
    /\ UNCHANGED <<yearSeq, version, disk, links, cache, parses, copies, phase, returned, written>>
    /\ UNCHANGED <<wsFiles, lockInode, pc, held, locked, force, nextInode, wsDirs, jug>>

NextYears == ExpandYearRanges

SpecYears == InitYears /\ [][NextYears]_vars

(***************************************************************************)
(* The properties.                                                         *)
(***************************************************************************)
\* every name under which the files of the scenarios' directories are reached
AllNames == UNION {LocalNames(s) : s \in Scen}

\* C1: CachedFile.getFile returns the same cache entry, holding the same
\* parsed tree, for every call whose path canonicalizes to the same file,
\* whatever alias of the file the call names; the file is parsed on the first
\* such call only, and the cache holds at most one entry per canonical path:
\* every key is canonical, every cached file was parsed exactly once, and a
\* call for a name whose file is cached returns that entry and leaves the
\* cache and the parse counts as they are.
C1_OneEntryPerCanonicalPath ==
    /\ \A k \in DOMAIN cache : realpath(k) = k /\ Count(parses, k) = 1 /\ cache[k].gen = 1
    /\ \A f \in DOMAIN parses : f \in DOMAIN cache
    /\ \A a \in AllNames :
          realpath(a) \in DOMAIN cache =>
              getFile(disk, cache, parses, a) =
                  [ok |-> TRUE, key |-> realpath(a), cache |-> cache, parses |-> parses]

\* C1 witness: a cached file that two operations have edited in one tree
\* (multiply through the sandbox path, xmlIns through any of its names), still
\* unflushed, that has three different names, a dynamic link among them
C1_Witness ==
    \E k \in DOMAIN cache :
        /\ cache[k].mut /\ cache[k].edited
        /\ Len(cache[k].tree.elts) = 2
        /\ cache[k].tree.elts[1].text = NumText(2, TRUE)
        /\ Cardinality({a \in AllNames : realpath(a) = k}) = 3
        /\ \E a \in DOMAIN links : realpath(a) = k

\* the files and links below the reference workspace
UnderReference(S) == {p \in S : IsPrefix(realpath(RefWorkspace), p)}

\* C2: after any sequence of editor operations and cache flushes no file
\* under the reference workspace has been written, edited or deleted: the
\* reference files are there with the content they had at the start, nothing
\* else has appeared below the reference workspace, no cached reference file
\* is edited or flagged for writing, every file a flush wrote lies in the
\* directory of a scenario, and removeTreeSafely refuses every path that
\* leads into the reference workspace.
C2_ReferenceNeverWritten ==
    /\ UnderReference(DOMAIN disk) = {RefConfigFile, RefDataPath("F")}
    /\ UnderReference(DOMAIN links) = {}
    /\ disk[RefConfigFile] = RefConfigDoc
    /\ disk[RefDataPath("F")] = RefDataDoc
    /\ \A k \in UnderReference(DOMAIN cache) :
          ~cache[k].edited /\ ~cache[k].mut /\ cache[k].tree = disk[k]
    /\ \A k \in written : \E s \in Scen : IsPrefix(LocalDir(s), k)
    /\ \A path \in RemovalCandidates :
          UnderReference({realpath(path)}) # {} => removeTreeRefuses(path)

\* C2 witness: the baseline has copied the reference file of tag F once,
\* edited its copy, and the last flush wrote the copy, which now differs from
\* the reference file
C2_Witness ==
    /\ Count(copies, <<Baseline, "F">>) = 1
    /\ \E k \in written :
          /\ Basename(k) = FileOf("F")
          /\ disk[k] # RefDataDoc
          /\ disk[k].elts[1].text = NumText(2, TRUE)

\* C3: getLocalCopy called for the same component two or more times in one
\* scenario, with other edit operations on the component in between, returns
\* the same (relative, absolute) paths every time and makes exactly one disk
\* copy in total, so that no later call overwrites the edited local file:
\* per scenario and tag at most one pair of paths was ever returned, and
\* once a pair was returned exactly one copy has been made.
C3_LocalCopyIdempotent ==
    \A s \in Scen, tag \in Tags :
        /\ Cardinality(Seen(returned, <<s, tag>>)) <= 1
        /\ Seen(returned, <<s, tag>>) # {} => Count(copies, <<s, tag>>) = 1

\* C3 for the scenarios whose name does not end in -xml
C3_OrdinaryNames ==
    \A s \in Scen \ {Leaf}, tag \in Tags :
        /\ Cardinality(Seen(returned, <<s, tag>>)) <= 1
        /\ Seen(returned, <<s, tag>>) # {} => Count(copies, <<s, tag>>) = 1

\* a scenario's own copy of the file of tag F, and whether the scenario holds
\* it: the copy is on disk and the scenario's config.xml on disk names it
OwnCopy(s) == LocalDir(s) \o <<FileOf("F")>>
Holds(s) ==
    /\ OwnCopy(s) \in DOMAIN disk
    /\ cfgPath(s) \in DOMAIN disk
    /\ \E i \in 1..Len(disk[cfgPath(s)].elts) :
          /\ disk[cfgPath(s)].elts[i].name = "F"
          /\ disk[cfgPath(s)].elts[i].text = PathText(scenario_dir_rel(s) \o <<FileOf("F")>>)
\* the file getLocalCopy takes as its source when called from a scenario
ResolvedFrom(s) == getLocalCopy(disk, cache, parses, s, "F").src
\* every edit is flushed
AllFlushed == \A k \in DOMAIN cache : ~cache[k].edited /\ ~cache[k].mut

\* C4: in the chain baseline -> policy -> leaf, when only the baseline holds
\* file F, resolving F from the leaf uses the baseline's copy; once the policy
\* scenario has materialized and edited its own copy of F (and flushed it), a
\* resolution of F from the leaf uses the policy scenario's copy and not the
\* baseline's, whatever the order in which the leaf was set up and the
\* policy scenario materialized F.
C4_ResolvesNearestCopy ==
    (phase[Leaf] = "static" /\ ~Holds(Leaf) /\ AllFlushed) =>
        /\ (Holds(Baseline) /\ ~Holds(Policy)) => ResolvedFrom(Leaf) = OwnCopy(Baseline)
        /\ (Holds(Policy) /\ disk[OwnCopy(Policy)] # RefDataDoc) => ResolvedFrom(Leaf) = OwnCopy(Policy)

\* an edit call whose instruction matched leaves the entry of the file it
\* edited flagged
MatchedEditFlags(r) == (r.ok /\ r.updated) => r.cache[realpath(r.abs)].edited

\* C5: for any number of edit calls on the same file between two flushes,
\* the file is parsed exactly once and, if an instruction matched, it is
\* written exactly once by the next decacheAll, and a further decacheAll with
\* no edit in between does not write it again.  In every step: every cached
\* file has been parsed once; an edit call (replaceValue, multiply, add) whose
\* instruction matches leaves the file flagged; a flag stays until the file
\* is written; a written file is unflagged and on disk as cached; decacheAll
\* (alone, or at the end of setupStatic and setupDynamic) writes the flagged
\* files and no other, and leaves nothing for a second decacheAll to write.
C5_ParsedOnceWrittenOnce ==
    [][/\ \A k \in DOMAIN cache' : Count(parses', k) = 1
       /\ \A tag \in Tags, xp \in EditTargets :
             phase[Baseline] = "static" =>
                 /\ MatchedEditFlags(replaceValue(disk, cache, parses, Baseline, tag, xp, PyInt(2)))
                 /\ MatchedEditFlags(multiply(disk, cache, parses, Baseline, tag, xp, PyInt(2)))
                 /\ MatchedEditFlags(add(disk, cache, parses, Baseline, tag, xp, PyInt(1)))
       /\ \A k \in DOMAIN cache : (cache[k].edited /\ k \notin written') => cache'[k].edited
       /\ \A k \in written' : k \in DOMAIN cache' /\ ~cache'[k].edited /\ disk'[k] = cache'[k].tree
       /\ DecacheAll => written' = {k \in DOMAIN cache : cache[k].edited}
       /\ (DecacheAll \/ SetupStatic(Baseline) \/ SetupDynamic(Baseline)) =>
             WrittenByDecacheAll(cache') = {}
      ]_vars

\* C5 witness: the last flush wrote the baseline's copy of F, which holds
\* the value an edit call set; the file was parsed once and no cached file
\* is flagged any more
C5_Witness ==
    /\ OwnCopy(Baseline) \in written
    /\ disk[OwnCopy(Baseline)].elts[1].text = NumText(2, FALSE)
    /\ parses[OwnCopy(Baseline)] = 1
    /\ \A k \in DOMAIN cache : ~cache[k].edited

\* C6: CachedFile.decache writes the file if and only if the entry's edited
\* flag is set, and after it the flag is clear; decacheAll writes exactly the
\* entries whose flag was set, each with the tree the cache holds, and leaves
\* every other file on disk, and every cached tree, as it was.
C6_WritesExactlyTheFlagged ==
    [][/\ \A k \in DOMAIN cache :
             Decache(k) =>
                 /\ written' = IF cache[k].edited THEN {k} ELSE {}
                 /\ ~cache'[k].edited
                 /\ cache[k].edited => disk'[k] = cache[k].tree
                 /\ \A p \in DOMAIN disk' \ written' : p \in DOMAIN disk /\ disk'[p] = disk[p]
                 /\ \A q \in DOMAIN cache \ {k} : cache'[q] = cache[q]
       /\ DecacheAll =>
             /\ written' = {k \in DOMAIN cache : cache[k].edited}
             /\ \A k \in written' : disk'[k] = cache[k].tree
             /\ \A p \in DOMAIN disk' \ written' : p \in DOMAIN disk /\ disk'[p] = disk[p]
             /\ \A k \in DOMAIN cache' : ~cache'[k].edited /\ cache'[k].tree = cache[k].tree
      ]_vars

\* C6 witness: a flush has written the baseline's edited copy of F and has
\* not written the cached config.xml, whose flag was clear
C6_Witness ==
    /\ written = {OwnCopy(Baseline)}
    /\ cfgPath(Baseline) \in DOMAIN cache
    /\ disk[OwnCopy(Baseline)] = cache[OwnCopy(Baseline)].tree
    /\ disk[OwnCopy(Baseline)] # RefDataDoc
    /\ ~cache[OwnCopy(Baseline)].edited

\* C7: a flush writes a document only if its in-memory tree was mutated
\* since it was loaded or last flushed; an operation that matches no element
\* or fails before changing the tree does not cause the file to be written.
\* In every step, a written file whose tree the step itself left as it was
\* had its tree assigned to since the load or the last write.
C7_WrittenOnlyIfMutated ==
    [][\A k \in written' \cap DOMAIN cache :
          cache'[k].tree = cache[k].tree => cache[k].mut]_vars

\* an edit operation completed and an instruction of it matched
Succeeded(r) == r.ok /\ r.updated
\* the config.xml of scenario s, as cached in c, names the scenario's own copy
\* of the file of the tag
NamesLocal(c, s, tag) ==
    /\ cfgPath(s) \in DOMAIN c
    /\ \E i \in 1..Len(c[cfgPath(s)].tree.elts) :
          /\ c[cfgPath(s)].tree.elts[i].grp = "ScenarioComponents"
          /\ c[cfgPath(s)].tree.elts[i].name = tag
          /\ c[cfgPath(s)].tree.elts[i].text = PathText(scenario_dir_rel(s) \o <<FileOf(tag)>>)

\* C8: after an edit operation that takes a component tag and edits that
\* component's file (replaceValue, multiply, add) has completed successfully,
\* the scenario's config entry for the tag points to the scenario-local copy
\* that was edited.
C8_EditRegistersLocalCopy ==
    [][\A tag \in Tags, xp \in EditTargets :
          /\ (ReplaceValue(Baseline, tag, xp)
                /\ Succeeded(replaceValue(disk, cache, parses, Baseline, tag, xp, PyInt(2))))
                => NamesLocal(cache', Baseline, tag)
          /\ (Multiply(Baseline, tag, xp)
                /\ Succeeded(multiply(disk, cache, parses, Baseline, tag, xp, PyInt(2))))
                => NamesLocal(cache', Baseline, tag)
          /\ (Add(Baseline, tag, xp)
                /\ Succeeded(add(disk, cache, parses, Baseline, tag, xp, PyInt(1))))
                => NamesLocal(cache', Baseline, tag)
      ]_vars

\* C8 for multiply and add alone
C8_MultiplyAddRegister ==
    [][\A tag \in Tags, xp \in EditTargets :
          /\ (Multiply(Baseline, tag, xp)
                /\ Succeeded(multiply(disk, cache, parses, Baseline, tag, xp, PyInt(2))))
                => NamesLocal(cache', Baseline, tag)
          /\ (Add(Baseline, tag, xp)
                /\ Succeeded(add(disk, cache, parses, Baseline, tag, xp, PyInt(1))))
                => NamesLocal(cache', Baseline, tag)
      ]_vars

\* what a step of scenario s may change when it edits a file s has no copy of:
\* one new file, the scenario's own copy; no other file, no link; no cache
\* entry outside the scenario's directory, where at most an unflagged entry
\* of a file that was read appears
ChildFrame(s) ==
    /\ DOMAIN disk' \ DOMAIN disk = {OwnCopy(s)}
    /\ \A p \in DOMAIN disk : disk'[p] = disk[p]
    /\ links' = links
    /\ \A k \in DOMAIN cache : ~IsPrefix(LocalDir(s), k) => cache'[k] = cache[k]
    /\ \A k \in DOMAIN cache' \ DOMAIN cache :
          ~IsPrefix(LocalDir(s), k) => (~cache'[k].edited /\ ~cache'[k].mut)
    /\ cache'[OwnCopy(s)].edited

\* C9: a single edit operation run by a child scenario on a component whose
\* file it inherits creates exactly one new file, in the child's local
\* directory, and leaves the baseline's file, the baseline's config.xml and
\* every other scenario's files unchanged on disk and in the cache, with no
\* entry of another scenario flagged, so that the flush writes none of them.
C9_ChildEditFrame ==
    [][\A s \in {Policy, Leaf}, tag \in Tags :
          /\ (/\ ReplaceValue(s, tag, ByName("data", "e"))
              /\ OwnCopy(s) \notin DOMAIN disk
              /\ Succeeded(replaceValue(disk, cache, parses, s, tag, ByName("data", "e"), PyInt(2))))
                => ChildFrame(s)
          /\ (/\ Multiply(s, tag, ByName("data", "e"))
              /\ OwnCopy(s) \notin DOMAIN disk
              /\ Succeeded(multiply(disk, cache, parses, s, tag, ByName("data", "e"), PyInt(2))))
                => ChildFrame(s)
      ]_vars

\* C9 witness: the policy scenario has edited, by one operation, the file it
\* inherited from the baseline: its own copy on disk is still the copy of the
\* baseline's edited file, the cached tree of the copy holds the new value,
\* and the baseline's file is unflagged
C9_Witness ==
    /\ Count(copies, <<Policy, "F">>) = 1
    /\ OwnCopy(Baseline) \in DOMAIN disk /\ OwnCopy(Policy) \in DOMAIN disk
    /\ disk[OwnCopy(Baseline)] # RefDataDoc
    /\ disk[OwnCopy(Policy)] = disk[OwnCopy(Baseline)]
    /\ OwnCopy(Policy) \in DOMAIN cache /\ cache[OwnCopy(Policy)].edited
    /\ cache[OwnCopy(Policy)].tree.elts[1].text = NumText(2, FALSE)
    /\ OwnCopy(Baseline) \in DOMAIN cache /\ ~cache[OwnCopy(Baseline)].edited
    /\ cache[OwnCopy(Baseline)].tree = disk[OwnCopy(Baseline)]

\* C10: at most one process at a time executes the workspace-population
\* section of copyWorkspace for a workspace (marker handling, optional
\* deletion of the workspace, copying and linking), in every interleaving of
\* concurrent calls, forced re-creation and crash recovery included.
C10_OneProcessPopulates ==
    \A p, q \in Procs : (p # q /\ pc[p] \in Critical) => pc[q] \notin Critical

\* two processes are inside the section together only when their locks are
\* on different files: the lock itself never admits two holders
C10_SameLockFile ==
    \A p, q \in Procs : (p # q /\ pc[p] \in Critical /\ pc[q] \in Critical) => held[p] # held[q]

\* a workspace that holds part of a population and not all of it
HalfPopulated(S) == "copied" \in S /\ "linked" \notin S

\* C11: when a run of copyWorkspace dies after it started modifying the
\* workspace, the crash marker is there for the next run to find: whenever
\* the only running process dies and leaves a half-populated workspace, the
\* marker file is present.
C11_CrashLeavesMarker ==
    [][\A p \in Procs :
          (/\ Crash(p)
           /\ \A q \in Procs \ {p} : pc[q] = "idle"
           /\ HalfPopulated(wsFiles'))
            => Semaphore \in wsFiles'
      ]_vars

\* no two entries of the ScenarioComponents list of a tree share a name
UniqueNames(tree) ==
    \A i, j \in Components(tree) : tree.elts[i].name = tree.elts[j].name => i = j

\* C12: starting from a configuration whose ScenarioComponents names are
\* unique, after any sequence of add, insert, update, delete and rename
\* operations the list holds at most one entry per name.
C12_UniqueComponentNames ==
    \A k \in DOMAIN cache : UniqueNames(cache[k].tree)

\* every operation but rename keeps the names unique
C12_UniqueButForRename ==
    [][(/\ \A k \in DOMAIN cache : UniqueNames(cache[k].tree)
        /\ ~(\E n \in CompNames, f \in CompPaths : RenameScenarioComponent(Baseline, n, f)))
          => \A k \in DOMAIN cache' : UniqueNames(cache'[k].tree)
      ]_vars

\* add(x, A), delete(x), add(x, B) leaves one x entry, with path B: whatever
\* the list, adding x with a path leaves exactly one x entry, with that path
C12_AddLeavesOneEntry ==
    [][\A n \in CompNames, f \in CompPaths :
          (AddScenarioComponent(Baseline, n, f) /\ UniqueNames(cache[cfgPath(Baseline)].tree))
            => /\ Cardinality(SelectAll(cache'[cfgPath(Baseline)].tree, ByName("ScenarioComponents", n))) = 1
               /\ \A i \in SelectAll(cache'[cfgPath(Baseline)].tree, ByName("ScenarioComponents", n)) :
                     cache'[cfgPath(Baseline)].tree.elts[i].text = PathText(f)
      ]_vars

\* the tree of the configuration of the baseline editor, and whether its
\* ScenarioComponents list has an entry of a name
CfgTree == cache[cfgPath(Baseline)].tree
HasComponent(tree, n) == SelectAll(tree, ByName("ScenarioComponents", n)) # {}

\* C13: addScenarioComponent called with a name that is already in the
\* ScenarioComponents list raises and leaves the list as it was.
C13_AddRejectsDuplicate ==
    [][\A n \in CompNames, f \in CompPaths :
          (AddScenarioComponent(Baseline, n, f) /\ HasComponent(CfgTree, n))
            => /\ ~addScenarioComponent(disk, cache, parses, Baseline, n, f).ok
               /\ CfgTree' = CfgTree
      ]_vars

\* the entries of a tree other than those in the set I are as in the tree t0,
\* at the same places
SameBut(t0, t1, I) ==
    /\ Len(t1.elts) = Len(t0.elts)
    /\ \A i \in 1..Len(t0.elts) : i \notin I => t1.elts[i] = t0.elts[i]

\* C14: updateScenarioComponent(name, path) raises when no entry of the
\* ScenarioComponents list has the name; when one has, that entry's path
\* becomes path and every other entry and every position stays.
C14_UpdateFailsNotFound ==
    [][\A n \in CompNames, f \in CompPaths :
          UpdateScenarioComponent(Baseline, n, f)
            => /\ ~HasComponent(CfgTree, n)
                    => ~updateScenarioComponent(disk, cache, parses, Baseline, n, f).ok
               /\ HasComponent(CfgTree, n)
                    => /\ SameBut(CfgTree, CfgTree', SelectAll(CfgTree, ByName("ScenarioComponents", n)))
                       /\ \A i \in SelectAll(CfgTree, ByName("ScenarioComponents", n)) :
                             CfgTree'.elts[i] = [CfgTree.elts[i] EXCEPT !.text = PathText(f)]
      ]_vars

\* the second half of C14 alone: an update of a name that is there changes
\* that entry's path and nothing else; of a name that is not there, nothing
C14_UpdateChangesOnePath ==
    [][\A n \in CompNames, f \in CompPaths :
          UpdateScenarioComponent(Baseline, n, f)
            => /\ SameBut(CfgTree, CfgTree', SelectAll(CfgTree, ByName("ScenarioComponents", n)))
               /\ \A i \in SelectAll(CfgTree, ByName("ScenarioComponents", n)) :
                     CfgTree'.elts[i] = [CfgTree.elts[i] EXCEPT !.text = PathText(f)]
      ]_vars

\* the entries of a tree that record a path
WithPath(tree, f) == SelectAll(tree, XPath("ScenarioComponents", "text", PathText(f), ""))

\* C15: renameScenarioComponent(newName, path) changes the name of the entry
\* that records exactly path and of no other, and raises when no entry
\* records that path.
C15_RenameFailsNotFound ==
    [][\A n \in CompNames, f \in CompPaths :
          RenameScenarioComponent(Baseline, n, f)
            => /\ WithPath(CfgTree, f) = {}
                    => ~renameScenarioComponent(disk, cache, parses, Baseline, n, f).ok
               /\ SameBut(CfgTree, CfgTree', WithPath(CfgTree, f))
               /\ \A i \in WithPath(CfgTree, f) :
                     CfgTree'.elts[i] = [CfgTree.elts[i] EXCEPT !.name = n]
      ]_vars

\* the first half of C15 alone: the entries that record the path take the
\* name, the others stay
C15_RenameChangesByPath ==
    [][\A n \in CompNames, f \in CompPaths :
          RenameScenarioComponent(Baseline, n, f)
            => /\ SameBut(CfgTree, CfgTree', WithPath(CfgTree, f))
               /\ \A i \in WithPath(CfgTree, f) :
                     CfgTree'.elts[i] = [CfgTree.elts[i] EXCEPT !.name = n]
      ]_vars

\* the entry e sits right after an entry named after in the list of tree
SitsAfter(tree, e, after) ==
    \E i \in Components(tree) :
        /\ tree.elts[i].name = after
        /\ i + 1 <= Len(tree.elts)
        /\ tree.elts[i + 1] = e

\* what C16 asks of the result r of an insertScenarioComponent(n, f, a)
\* called on the tree t0
InsertedAfter(t0, r, n, f, a) ==
    /\ ~HasComponent(t0, a) => ~r.ok
    /\ r.ok => SitsAfter(r.cache[cfgPath(Baseline)].tree, Elt("ScenarioComponents", n, PathText(f)), a)

\* C16: insertScenarioComponent(name, path, after) raises whenever no entry
\* of the ScenarioComponents list is named after, and when it succeeds the
\* new entry sits immediately after the entry named after.
C16_InsertAfterOrFail ==
    phase[Baseline] = "static"
        => \A n \in CompNames, f \in CompPaths, a \in CompNames :
              InsertedAfter(CfgTree, insertScenarioComponent(disk, cache, parses, Baseline, n, f, a), n, f, a)

\* an entry x stands between the entry F it was inserted after and a later one
C16_Witness ==
    /\ phase[Baseline] = "static"
    /\ cache[cfgPath(Baseline)].edited
    /\ \E i \in Components(CfgTree) :
          /\ i + 2 <= Len(CfgTree.elts)
          /\ CfgTree.elts[i].name = "F"
          /\ CfgTree.elts[i + 1].name = "x"
          /\ CfgTree.elts[i + 2].name = "y"

\* the tree a call of xmlEdit on a data file starts from
TreeBefore(f) == getFile(disk, cache, parses, f).cache[realpath(f)].tree
TreeAfter(r, f) == r.cache[realpath(f)].tree
HasAttribute(pairs) == \E j \in 1..Len(pairs) : pairs[j][1].attr # ""
AttributesOf(tree) == [i \in 1..Len(tree.elts) |-> tree.elts[i].name]

\* C17: xmlEdit called with op 'multiply' or 'add' and a selector ending in
\* /@attr raises and leaves the attribute as it was.
C17_AttributeOnlySet ==
    [][\A f \in DataFiles, op \in {"multiply", "add"} :
          \A pairs \in EditBatches(op) :
              (XmlEdit(Baseline, f, pairs, op) /\ HasAttribute(pairs))
                  => /\ ~xmlEdit(disk, cache, parses, f, pairs, op).ok
                     /\ AttributesOf(cache'[realpath(f)].tree) = AttributesOf(TreeBefore(f))
      ]_vars

\* whether some pair of a batch selects an element of the tree
AnyMatch(tree, pairs) ==
    \E j \in 1..Len(pairs) :
        ValidXPath(pairs[j][1]) /\ SelectAll(tree, [pairs[j][1] EXCEPT !.attr = ""]) # {}
AllValid(pairs) == \A j \in 1..Len(pairs) : ValidXPath(pairs[j][1])

\* what C18 asks of the result r of xmlEdit(f, pairs, op) called in this state
ReturnsWhetherMatched(f, pairs, r) ==
    /\ r.ok => (r.updated <=> AnyMatch(TreeBefore(f), pairs))
    /\ (AllValid(pairs) /\ ~AnyMatch(TreeBefore(f), pairs))
          => /\ r.ok
             /\ ~r.updated
             /\ TreeAfter(r, f) = TreeBefore(f)
             /\ r.cache[realpath(f)].edited = getFile(disk, cache, parses, f).cache[realpath(f)].edited

\* C18: xmlEdit returns True exactly when some pair matched some element;
\* when none matches it raises nothing, returns False and leaves the tree
\* and the entry's edited flag as they were (it never writes the file).
C18_TrueIffMatched ==
    \A f \in DataFiles, op \in legalOps :
        \A pairs \in EditBatches(op) :
            ReturnsWhetherMatched(f, pairs, xmlEdit(disk, cache, parses, f, pairs, op))

\* the data file is in the cache as it was read, unflagged: an xmlEdit that
\* matched nothing loaded it and left it alone
C18_Witness ==
    \E f \in DataFiles :
        /\ realpath(f) \in DOMAIN cache
        /\ ~cache[realpath(f)].edited
        /\ ~cache[realpath(f)].mut
        /\ parses[realpath(f)] = 1
        /\ cache[realpath(f)].tree = disk[realpath(f)]

\* C19: when a selector of the batch is not well formed, xmlEdit raises
\* before it applies any pair: the tree stays as it was, even when earlier
\* pairs of the batch are well formed and match.
C19_BadSelectorFailsFast ==
    [][\A f \in DataFiles, op \in legalOps :
          \A pairs \in EditBatches(op) :
              (XmlEdit(Baseline, f, pairs, op) /\ ~AllValid(pairs))
                  => /\ ~xmlEdit(disk, cache, parses, f, pairs, op).ok
                     /\ cache'[realpath(f)].tree = TreeBefore(f)
      ]_vars

\* a batch whose first selector is not well formed changes nothing
C19_BadFirstSelector ==
    \A f \in DataFiles, op \in legalOps :
        \A pairs \in EditBatches(op) :
            ~ValidXPath(pairs[1][1])
                => /\ ~xmlEdit(disk, cache, parses, f, pairs, op).ok
                   /\ TreeAfter(xmlEdit(disk, cache, parses, f, pairs, op), f) = TreeBefore(f)

\* the pair (xp, value) applied to the tree tj meets, at element i, the
\* first matched element whose text is not numeric
MeetsNonNumeric(tj, xp, i) ==
    /\ tj.ok
    /\ ValidXPath(xp)
    /\ xp.attr = ""
    /\ i \in SelectAll(tj.tree, xp)
    /\ ~IsNumeric(tj.tree.elts[i].text)
    /\ \A k \in SelectAll(tj.tree, xp) : k < i => IsNumeric(tj.tree.elts[k].text)

\* the elements of tj, the pair applied to the matched ones before element i
AppliedBefore(tj, xp, value, op, i) ==
    [k \in 1..Len(tj.tree.elts) |->
        IF k < i /\ k \in SelectAll(tj.tree, xp) THEN ModElt(op, tj.tree.elts[k], value).e
        ELSE tj.tree.elts[k]]

\* what C20 asks of the result r of xmlEdit(f, pairs, op) called in this state
StopsAtNonNumeric(f, pairs, op, r) ==
    \A j \in 1..Len(pairs), i \in 1..Len(TreeBefore(f).elts) :
        MeetsNonNumeric(EditPairs(TreeBefore(f), SubSeq(pairs, 1, j - 1), 1, op, FALSE), pairs[j][1], i)
            => /\ ~r.ok
               /\ TreeAfter(r, f).elts =
                     AppliedBefore(EditPairs(TreeBefore(f), SubSeq(pairs, 1, j - 1), 1, op, FALSE),
                                   pairs[j][1], pairs[j][2], op, i)

\* C20: when a multiply or add pair meets a matched element whose text is
\* not numeric, xmlEdit raises there: the later matched elements of that
\* pair and the later pairs of the call are not applied.
C20_NonNumericStopsTheCall ==
    \A f \in DataFiles, op \in {"multiply", "add"} :
        \A pairs \in EditBatches(op) :
            StopsAtNonNumeric(f, pairs, op, xmlEdit(disk, cache, parses, f, pairs, op))

\* a multiply of every element doubled the first and raised at the second,
\* whose text is not numeric: the tree is changed and the entry not flagged
C20_Witness ==
    \E f \in DataFiles :
        /\ realpath(f) \in DOMAIN cache
        /\ cache[realpath(f)].mut
        /\ ~cache[realpath(f)].edited
        /\ Len(cache[realpath(f)].tree.elts) >= 2
        /\ cache[realpath(f)].tree.elts[1].text = NumText(2, TRUE)
        /\ ~IsNumeric(cache[realpath(f)].tree.elts[2].text)

\* the text xmlSel finds for every selector in the cache c
Visible(c, np, f) ==
    [xp \in {x \in EditSelectors : ValidXPath(x)} |-> xmlSel(disk, c, np, f, [xp EXCEPT !.attr = ""]).text]
\* the text of the first element a selector matches in a tree
TextIn(tree) ==
    [xp \in {x \in EditSelectors : ValidXPath(x)} |->
        IF FindFirst(tree, [xp EXCEPT !.attr = ""]) = 0 THEN <<>>
        ELSE tree.elts[FindFirst(tree, [xp EXCEPT !.attr = ""])].text]

\* what C21 asks of a call with two pairs: r is its result, r1 the result of
\* a call with the first pair alone, r2 of a call with the second pair made
\* after that one
InOrderAndVisible(f, r, r1, r2) ==
    /\ r.ok => (r1.ok /\ r2.ok /\ TreeAfter(r, f) = TreeAfter(r2, f))
    /\ r1.ok => Visible(r1.cache, r1.parses, f) = TextIn(TreeAfter(r1, f))

\* C21: the pairs of one xmlEdit call are applied in the order given, a later
\* pair working on what the earlier one left; an xmlSel, xmlEdit or xmlIns
\* issued afterwards on the same file sees the earlier edits and insertions
\* with no flush in between.
C21_InOrderVisibleAtOnce ==
    \A f \in DataFiles, op \in legalOps :
        /\ \A pairs \in {b \in EditBatches(op) : Len(b) = 2} :
              InOrderAndVisible(f, xmlEdit(disk, cache, parses, f, pairs, op),
                                xmlEdit(disk, cache, parses, f, <<pairs[1]>>, op),
                                xmlEdit(disk, xmlEdit(disk, cache, parses, f, <<pairs[1]>>, op).cache,
                                        xmlEdit(disk, cache, parses, f, <<pairs[1]>>, op).parses,
                                        f, <<pairs[2]>>, op))
        /\ xmlIns(disk, cache, parses, f, "data", Elt("data", "n", NumText(1, FALSE))).ok
              => Visible(xmlIns(disk, cache, parses, f, "data", Elt("data", "n", NumText(1, FALSE))).cache,
                         xmlIns(disk, cache, parses, f, "data", Elt("data", "n", NumText(1, FALSE))).parses, f)
                   = TextIn(TreeAfter(xmlIns(disk, cache, parses, f, "data", Elt("data", "n", NumText(1, FALSE))), f))

\* the cached tree of a data file differs from the file on disk: edits made
\* and not flushed
C21_Witness ==
    \E f \in DataFiles :
        /\ realpath(f) \in DOMAIN cache
        /\ cache[realpath(f)].edited
        /\ cache[realpath(f)].tree # disk[realpath(f)]
        /\ Len(cache[realpath(f)].tree.elts) = 2

\* the text the claim gives an element of text old under an operation
TextUnder(op, old, value) ==
    IF op = "set" THEN PyStr(value)
    ELSE IF op = "multiply" THEN NumText(old[2] * value[2], TRUE)
    ELSE NumText(old[2] + value[2], TRUE)

\* what C22 asks of the result r of xmlEdit(f, [(xp, value)], op)
EachMatchedOnce(f, xp, value, op, r) ==
    r.ok => TreeAfter(r, f).elts =
               [k \in 1..Len(TreeBefore(f).elts) |->
                   IF k \in SelectAll(TreeBefore(f), xp)
                   THEN [TreeBefore(f).elts[k] EXCEPT !.text = TextUnder(op, @, value)]
                   ELSE TreeBefore(f).elts[k]]

\* C22: with an element-text selector, every element the pair matches is
\* updated once: 'set' puts str(value), 'multiply' old*value, 'add'
\* old+value, as the text of a float ("10.0" times 2 is "20.0", plus 5 is
\* "15.0", set to 7 is "7"); the elements not matched keep their text.
C22_SetMultiplyAdd ==
    /\ ModElt("multiply", Elt("data", "e", NumText(10, TRUE)), PyInt(2)).e.text = NumText(20, TRUE)
    /\ ModElt("add", Elt("data", "e", NumText(10, TRUE)), PyInt(5)).e.text = NumText(15, TRUE)
    /\ ModElt("set", Elt("data", "e", NumText(10, TRUE)), PyInt(7)).e.text = NumText(7, FALSE)
    /\ \A f \in DataFiles, op \in legalOps :
          \A xp \in {x \in EditSelectors : ValidXPath(x) /\ x.attr = ""} :
              EachMatchedOnce(f, xp, EditValue(op), op,
                              xmlEdit(disk, cache, parses, f, <<<<xp, EditValue(op)>>>>, op))

\* the element xmlIns appended with the text "1" now reads "2.0": a multiply
\* or an add went over it
C22_Witness ==
    \E f \in DataFiles :
        /\ realpath(f) \in DOMAIN cache
        /\ cache[realpath(f)].edited
        /\ \E k \in 1..Len(cache[realpath(f)].tree.elts) :
              /\ cache[realpath(f)].tree.elts[k].name = "n"
              /\ cache[realpath(f)].tree.elts[k].text = NumText(2, TRUE)

\* whether setup may be called on the editor of s with these flags: the
\* editor exists and has not run its static phase before
MaySetup(s, dynamicOnly) == phase[s] # "none" /\ (~dynamicOnly => phase[s] = "new")

\* no entry of the cache of r is flagged, and every cached tree is the
\* content of its file
Flushed(r) ==
    \A k \in DOMAIN r.cache :
        /\ ~r.cache[k].edited
        /\ k \in DOMAIN r.disk
        /\ r.disk[k] = r.cache[k].tree

\* C23: when setup() returns normally, whatever the combination of
\* staticOnly and dynamicOnly, no cache entry is flagged as edited and every
\* cached tree, with the edits made before and during the call, is on disk.
C23_SetupEndsFlushed ==
    \A s \in SetupScen, staticOnly \in BOOLEAN, dynamicOnly \in BOOLEAN :
        (MaySetup(s, dynamicOnly) /\ setup(disk, links, cache, parses, s, staticOnly, dynamicOnly).ok)
            => Flushed(setup(disk, links, cache, parses, s, staticOnly, dynamicOnly))

\* C23 happens: the baseline's copy of the component was edited, and a setup
\* that ran the dynamic phase has written it and linked it
C23_Witness ==
    /\ LocalDir(Baseline) \o <<FileOf("F")>> \in DOMAIN disk \cap DOMAIN cache
    /\ disk[LocalDir(Baseline) \o <<FileOf("F")>>] # RefDataDoc
    /\ ~cache[LocalDir(Baseline) \o <<FileOf("F")>>].edited
    /\ DynDir(Baseline) \o <<FileOf("F")>> \in DOMAIN links

\* the document tree with its scenarioName field set to the name of s
Named(tree, s) ==
    [tree EXCEPT !.elts = [i \in DOMAIN tree.elts |->
        IF tree.elts[i].grp = "Strings" /\ tree.elts[i].name = "scenarioName"
        THEN [tree.elts[i] EXCEPT !.text = StrText(s)] ELSE tree.elts[i]]]

\* the document tree after the renaming pass: before GCAM 4.3 the component
\* of the interest-rate file is named interest_rate, from 4.3 on nothing changes
MadeUnique(tree) ==
    [tree EXCEPT !.elts = [i \in DOMAIN tree.elts |->
        IF VersionBefore43 /\ tree.elts[i].grp = "ScenarioComponents"
                           /\ tree.elts[i].text = PathText(InterestRelPath)
        THEN [tree.elts[i] EXCEPT !.name = "interest_rate"] ELSE tree.elts[i]]]

\* the names of the components of a configuration, by position
ComponentNames(tree) == [i \in Components(tree) |-> tree.elts[i].name]

\* the configuration setupStatic is to leave for s: the parent's file (the
\* reference file without a parent) with the scenario's name, and with the
\* renaming pass exactly when there is no parent
ClonedConfig(s) ==
    IF Parent(s) = NoParent THEN MadeUnique(Named(disk[ParentConfigPath(s)], s))
    ELSE Named(disk[ParentConfigPath(s)], s)

\* C24: setupStatic leaves as the scenario's configuration the clone of its
\* parent's configuration file (of the reference file without a parent)
\* with scenarioName set to the scenario's name; the renaming pass is
\* applied if and only if the scenario has no parent, so a derived scenario
\* has the component names of the clone.
C24_StaticClonesParent ==
    \A s \in SetupScen :
        (phase[s] = "new" /\ setupStatic(disk, links, cache, parses, s).ok)
            => /\ cfgPath(s) \in DOMAIN setupStatic(disk, links, cache, parses, s).disk
               /\ setupStatic(disk, links, cache, parses, s).disk[cfgPath(s)] = ClonedConfig(s)
               /\ ComponentNames(setupStatic(disk, links, cache, parses, s).disk[cfgPath(s)])
                     = IF Parent(s) = NoParent THEN ComponentNames(MadeUnique(disk[ParentConfigPath(s)]))
                       ELSE ComponentNames(disk[ParentConfigPath(s)])

\* C24 happens: before GCAM 4.3, the derived scenario was set up from a
\* baseline that had named the interest-rate component otherwise, and has
\* that name in its own configuration, under its own scenario name
C24_Witness ==
    /\ VersionBefore43
    /\ phase[Policy] = "static"
    /\ cfgPath(Policy) \in DOMAIN disk
    /\ disk[cfgPath(Policy)] = Named(disk[cfgPath(Baseline)], Policy)
    /\ \E i \in DOMAIN disk[cfgPath(Policy)].elts :
          /\ disk[cfgPath(Policy)].elts[i].text = PathText(InterestRelPath)
          /\ disk[cfgPath(Policy)].elts[i].name = "x"

\* the paths of S below dir, relative to dir
RelativeTo(S, dir) == {SubSeq(p, Len(dir) + 1, Len(p)) : p \in Below(S, dir)}

\* the dynamic directory of s holds, in the files of r, exactly one link
\* per relative path of Static, and each names that file of the local directory
Mirrors(r, s, Static) ==
    /\ RelativeTo(DOMAIN r.disk \cup DOMAIN r.links, DynDir(s)) = Static
    /\ \A p \in Static : /\ DynDir(s) \o p \in DOMAIN r.links
                         /\ realpath(r.links[DynDir(s) \o p]) = LocalDir(s) \o p

\* C25: when setupDynamic returns, the dynamic directory of the scenario
\* holds one link for every static XML file of the scenario's local
\* directory, those that getLocalCopy put in its sub-directories included,
\* and nothing else.
C25_DynamicMirrorsLocal ==
    \A s \in SetupScen :
        (phase[s] = "static" /\ setupDynamic(disk, links, cache, parses, {}, s).ok)
            => Mirrors(setupDynamic(disk, links, cache, parses, {}, s), s,
                       RelativeTo(DOMAIN setupDynamic(disk, links, cache, parses, {}, s).disk, LocalDir(s)))

\* C25 for the files directly in the local directory: they are linked, and
\* the dynamic directory holds nothing else
C25_TopLevelLinked ==
    \A s \in SetupScen :
        (phase[s] = "static" /\ setupDynamic(disk, links, cache, parses, {}, s).ok)
            => Mirrors(setupDynamic(disk, links, cache, parses, {}, s), s,
                       {q \in RelativeTo(DOMAIN setupDynamic(disk, links, cache, parses, {}, s).disk, LocalDir(s)) :
                           Len(q) = 1})

\* an argument that is given and is not a number greater than zero: a
\* string that is no number, a number <= 0, or nan, which is greater than nothing
NotPositive(v) == v # None /\ ~(IsNumber(v) /\ v[2] > 0)

\* the calls the specification has setupSolver refuse
ToBeRefused(st, bt, mc, mi) ==
    \/ NotPositive(st) \/ NotPositive(bt) \/ NotPositive(mc) \/ NotPositive(mi)
    \/ (IsNumber(st) /\ IsNumber(bt) /\ bt[2] > st[2])

\* the call raised, and copied, loaded and edited nothing
RefusedUntouched(r) ==
    /\ ~r.ok
    /\ ~r.copied
    /\ r.disk = disk
    /\ r.cache = cache
    /\ r.parses = parses

\* C26: setupSolver raises whenever an argument is not coercible or not
\* greater than zero, or both tolerances are given with the Broyden one
\* greater than the driver one, and then no file has been copied, loaded or
\* edited: the scenario directory, the cache and the configuration are as
\* before the call.
C26_SolverRefusesUntouched ==
    phase[Baseline] = "static" =>
        \A st \in Tolerances, bt \in Tolerances, mc \in Counts, mi \in Counts :
            ToBeRefused(st, bt, mc, mi)
                => RefusedUntouched(setupSolver(disk, cache, parses, Baseline, st, bt, mc, mi))

\* C26 for arguments other than nan: the call is refused with nothing touched
C26_RefusesButNaN ==
    phase[Baseline] = "static" =>
        \A st \in Tolerances \ {NaN}, bt \in Tolerances \ {NaN}, mc \in Counts, mi \in Counts :
            ToBeRefused(st, bt, mc, mi)
                => RefusedUntouched(setupSolver(disk, cache, parses, Baseline, st, bt, mc, mi))

\* the text of the stop-period field in the configuration of s cached in c
StopPeriodIn(c, s) == c[cfgPath(s)].tree.elts[FindFirst(c[cfgPath(s)].tree, ByName("Ints", "stop-period"))].text

\* C27: setStopPeriod(v) writes v itself as the stop period for every
\* integer v below 1000, and 1 + (v - 2000) div 5 for every v of 1000 or
\* more; 2015 gives 4 and 2020 gives 5.
C27_StopPeriodWritten ==
    /\ stopPeriod(2015) = 4
    /\ stopPeriod(2020) = 5
    /\ \A s \in SetupScen, a \in StopArgs :
          (phase[s] = "static" /\ IsNumber(a)) =>
              /\ setStopPeriod(disk, cache, parses, s, a).ok
              /\ StopPeriodIn(setStopPeriod(disk, cache, parses, s, a).cache, s)
                    = NumText(IF a[2] < 1000 THEN a[2] ELSE 1 + ((a[2] - 2000) \div 5), FALSE)

\* C27 for the values above 1: periods 2..999 are written as given, years
\* from 1000 on as 1 + (v - 2000) div 5
C27_AboveOne ==
    \A s \in SetupScen, a \in StopArgs :
        (phase[s] = "static" /\ IsNumber(a) /\ a[2] > 1) =>
            /\ setStopPeriod(disk, cache, parses, s, a).ok
            /\ StopPeriodIn(setStopPeriod(disk, cache, parses, s, a).cache, s)
                  = NumText(IF a[2] < 1000 THEN a[2] ELSE 1 + ((a[2] - 2000) \div 5), FALSE)

\* a single year, and a well-formed range "Y1-Y2" or "Y1-Y2:N" with
\* Y1 <= Y2 and N >= 1
SingleYear(year) == Len(year) = 4 /\ IsDigits(year)
FirstYear(year) == IntOf(SubSeq(year, 1, 4))
LastYear(year) == IntOf(SubSeq(year, 6, 9))
WellFormedRange(year) ==
    /\ YearRangeMatch(year)
    /\ FirstYear(year) <= LastYear(year)
    /\ StepOf(year) >= 1

\* the pairs the specification gives for one entry: the year itself, or
\* Y1, Y1 + N, ... up to Y2 and not beyond, each with the entry's value
PairsFor(entry) ==
    IF SingleYear(entry[1]) THEN <<<<IntOf(entry[1]), PyFloat(entry[2][2])>>>>
    ELSE [k \in 1..(((LastYear(entry[1]) - FirstYear(entry[1])) \div StepOf(entry[1])) + 1) |->
             <<FirstYear(entry[1]) + (k - 1) * StepOf(entry[1]), PyFloat(entry[2][2])>>]

\* the pairs of the entries, in input order
RECURSIVE PairsForAll(_)
PairsForAll(entries) ==
    IF entries = <<>> THEN <<>> ELSE PairsFor(Head(entries)) \o PairsForAll(Tail(entries))

\* C28: for single years and well-formed ranges "Y1-Y2" or "Y1-Y2:N" with
\* Y1 <= Y2 and N >= 1 (5 when omitted), expandYearRanges gives exactly the
\* years Y1, Y1 + N, Y1 + 2N, ... that are <= Y2, ascending, each with the
\* entry's value, never a year beyond Y2; a single year gives one pair; the
\* entries keep their input order.
C28_YearsUpToLast ==
    (yearResult # NotCalled
        /\ \A i \in 1..Len(yearSeq) : SingleYear(yearSeq[i][1]) \/ WellFormedRange(yearSeq[i][1]))
    => (yearResult.ok /\ yearResult.result = PairsForAll(yearSeq))

\* C28 for the ranges whose length is a whole number of steps
C28_WholeSteps ==
    (yearResult # NotCalled
        /\ \A i \in 1..Len(yearSeq) :
              \/ SingleYear(yearSeq[i][1])
              \/ (WellFormedRange(yearSeq[i][1])
                     /\ (LastYear(yearSeq[i][1]) - FirstYear(yearSeq[i][1])) % StepOf(yearSeq[i][1]) = 0))
    => (yearResult.ok /\ yearResult.result = PairsForAll(yearSeq))

\* a year specification that is neither a number nor of the form
\* "Y1-Y2" or "Y1-Y2:N"
Malformed(year) == ~IsDigits(year) /\ ~YearRangeMatch(year)

\* the index of the first malformed entry of the input, 0 when there is none
FirstMalformed ==
    IF \E i \in 1..Len(yearSeq) : Malformed(yearSeq[i][1])
    THEN (CHOOSE i \in 1..Len(yearSeq) :
             Malformed(yearSeq[i][1]) /\ \A j \in 1..(i - 1) : ~Malformed(yearSeq[j][1]))
    ELSE 0

\* C29: for every malformed year specification, "abcd-2030" or a single
\* year that is no number, expandYearRanges fails with SetupException,
\* whose message shows the offending input, and returns no partial result.
C29_MalformedIsSetupException ==
    (yearResult # NotCalled /\ FirstMalformed > 0
        /\ \A j \in 1..(FirstMalformed - 1) : SingleYear(yearSeq[j][1]) \/ WellFormedRange(yearSeq[j][1]))
    => /\ ~yearResult.ok
       /\ yearResult.result = <<>>
       /\ yearResult.error = "SetupException"
       /\ yearResult.echo = yearSeq[FirstMalformed][1]

\* C29 for the malformed specifications that contain "-"
C29_MalformedRange ==
    (yearResult # NotCalled /\ FirstMalformed > 0
        /\ (\E k \in 1..Len(yearSeq[FirstMalformed][1]) : yearSeq[FirstMalformed][1][k] = "-")
        /\ \A j \in 1..(FirstMalformed - 1) : SingleYear(yearSeq[j][1]) \/ WellFormedRange(yearSeq[j][1]))
    => /\ ~yearResult.ok
       /\ yearResult.result = <<>>
       /\ yearResult.error = "SetupException"
       /\ yearResult.echo = yearSeq[FirstMalformed][1]

\* the ScenarioComponents list of a configuration tree
ComponentList(tree) == SelectSeq(tree.elts, LAMBDA e : e.grp = "ScenarioComponents")

\* delMarketConstraint called on what addMarketConstraint left
AddThenDel(s, target, policy) ==
    delMarketConstraint(disk, addMarketConstraint(disk, cache, parses, s, target, policy).cache,
                        addMarketConstraint(disk, cache, parses, s, target, policy).parses, s, target, policy)

\* the add creates both entries: neither name is in the list before it
CreatesBoth(s, target) ==
    /\ ~HasComponent(TreeBefore(cfgPath(s)), AddedPolicyTag(target))
    /\ ~HasComponent(TreeBefore(cfgPath(s)), ConstraintTag(target))

\* C30: addMarketConstraint(target, policy) followed by
\* delMarketConstraint(target, policy) with the same arguments removes
\* both entries the add created: the ScenarioComponents list is as it was
\* before the add.
C30_DelUndoesAdd ==
    \A s \in SetupScen, target \in Targets, policy \in Policies :
        (phase[s] = "static" /\ CreatesBoth(s, target)
                             /\ addMarketConstraint(disk, cache, parses, s, target, policy).ok)
            => /\ AddThenDel(s, target, policy).ok
               /\ ComponentList(AddThenDel(s, target, policy).cache[cfgPath(s)].tree)
                     = ComponentList(TreeBefore(cfgPath(s)))

\* C30 for the one policy for which the two methods build the same tag
C30_PolicyNamedPolicy ==
    \A s \in SetupScen, target \in Targets :
        (phase[s] = "static" /\ CreatesBoth(s, target)
                             /\ addMarketConstraint(disk, cache, parses, s, target, "policy").ok)
            => /\ AddThenDel(s, target, "policy").ok
               /\ ComponentList(AddThenDel(s, target, "policy").cache[cfgPath(s)].tree)
                     = ComponentList(TreeBefore(cfgPath(s)))

\* the entries of the configuration tree named n
EntriesNamed(tree, n) == SelectAll(tree, ByName("ScenarioComponents", n))

\* the tree holds exactly one entry named n, and it points to xmlfile
OneEntry(tree, n, xmlfile) ==
    /\ Cardinality(EntriesNamed(tree, n)) = 1
    /\ \A i \in EntriesNamed(tree, n) : tree.elts[i].text = PathText(xmlfile)

\* the configuration of s after addMarketConstraint has one entry for the
\* policy tag and one for the constraint tag, with the paths of this call
BothEntries(s, target, policy) ==
    /\ OneEntry(addMarketConstraint(disk, cache, parses, s, target, policy).cache[cfgPath(s)].tree,
                AddedPolicyTag(target), policyXML(s, target, policy))
    /\ OneEntry(addMarketConstraint(disk, cache, parses, s, target, policy).cache[cfgPath(s)].tree,
                ConstraintTag(target), constraintXML(s, target, policy))

\* C31: after addMarketConstraint(target, policy) returns, the configuration
\* holds exactly one entry for the policy tag and exactly one for the
\* constraint tag, each with the path computed by this call, whichever of
\* the two existed before: existing entries are replaced, missing ones added.
C31_AddLeavesBothEntries ==
    \A s \in SetupScen, target \in Targets, policy \in Policies :
        (phase[s] = "static" /\ addMarketConstraint(disk, cache, parses, s, target, policy).ok)
            => BothEntries(s, target, policy)

\* C31 for the calls that do not find the policy entry alone: both entries
\* are there before the call, or the policy entry is not
C31_UnlessPolicyAlone ==
    \A s \in SetupScen, target \in Targets, policy \in Policies :
        (phase[s] = "static" /\ addMarketConstraint(disk, cache, parses, s, target, policy).ok
            /\ (HasComponent(TreeBefore(cfgPath(s)), AddedPolicyTag(target))
                   => HasComponent(TreeBefore(cfgPath(s)), ConstraintTag(target))))
            => BothEntries(s, target, policy)

WorkspaceArgs == SourceArgs \X BOOLEAN
SandboxCalls == SandboxArgs \X SourceArgs \X BOOLEAN \X BOOLEAN
NothingDone(r) == r.did = {} /\ r.dirs = wsDirs
RefusedAsSame(r) == r.error = "SetupException"

\* C32: whenever createSandbox or copyWorkspace raises SetupException for a
\* target that is the same directory as its source workspace, it has had no
\* effect on the file system: nothing was created, copied, linked or deleted
C32_SameDirNoSetup ==
    /\ \A a \in WorkspaceArgs :
           RefusedAsSame(copyWorkspace(wsDirs, a[1], RefWorkspace, a[2]))
               => NothingDone(copyWorkspace(wsDirs, a[1], RefWorkspace, a[2]))
    /\ \A a \in SandboxCalls :
           RefusedAsSame(createSandbox(wsDirs, a[1], a[2], a[3], a[4]))
               => NothingDone(createSandbox(wsDirs, a[1], a[2], a[3], a[4]))

\* the same of copyWorkspace alone, and of createSandbox in mcsMode or when
\* it is the workspace that is the reference workspace
C32_CopyWorkspaceNoSetup ==
    /\ \A a \in WorkspaceArgs :
           RefusedAsSame(copyWorkspace(wsDirs, a[1], RefWorkspace, a[2]))
               => NothingDone(copyWorkspace(wsDirs, a[1], RefWorkspace, a[2]))
    /\ \A a \in SandboxCalls :
           (RefusedAsSame(createSandbox(wsDirs, a[1], a[2], a[3], a[4])) /\ (a[4] \/ a[2] = RefWorkspace))
               => NothingDone(createSandbox(wsDirs, a[1], a[2], a[3], a[4]))

\* a populated workspace, for which copyWorkspace and createSandbox refuse
C32_Refusing ==
    /\ Has(wsDirs, SandboxRefWorkspace, LOCAL_XML_NAME)
    /\ RefusedAsSame(createSandbox(wsDirs, SandboxRefWorkspace, SandboxRefWorkspace, FALSE, TRUE))
    /\ RefusedAsSame(copyWorkspace(wsDirs, RefWorkspace, RefWorkspace, FALSE))
StepOrder == <<"runGCAM", "runQueries", "runDiffs", "computeCI">>
BaselineSucceeded == jug.base.at = "done" /\ jug.base.result.status = 0
\* the steps a policy task has run are the first steps of the chain, in order
InOrder(log) ==
    /\ Len(log) <= Len(StepOrder)
    /\ \A i \in 1..Len(log) : log[i].step = StepOrder[i]
\* only the last step run can have failed, and then the task has returned it
FirstFailureReturned(task) ==
    \A i \in 1..Len(task.log) :
        task.log[i].status # 0
            => /\ i = Len(task.log)
               /\ task.at = "done"
               /\ task.result.status = task.log[i].status
               /\ task.result.step = task.log[i].step
AllSucceeded(log) == Len(log) = Len(StepOrder) /\ \A i \in 1..Len(log) : log[i].status = 0

\* C33: a policy task runs steps only once the baseline task has finished
\* with status 0; after a failed baseline it returns the baseline's result
\* having run no step; its steps run in the order runGCAM, runQueries,
\* runDiffs, computeCI; the first failing step ends the chain and is the
\* result; the returned status is 0 only if every step succeeded
C33_PolicyAfterBaseline ==
    \A policy \in scenarios :
        /\ jug.pol[policy].log # <<>> => BaselineSucceeded
        /\ jug.pol[policy].at \notin {"waiting", "done"} => BaselineSucceeded
        /\ (jug.pol[policy].at = "done" /\ ~BaselineSucceeded)
               => jug.pol[policy].result = jug.base.result /\ jug.pol[policy].log = <<>>
        /\ InOrder(jug.pol[policy].log)
        /\ FirstFailureReturned(jug.pol[policy])
        /\ (jug.pol[policy].at = "done" /\ jug.pol[policy].result.status = 0)
               => BaselineSucceeded /\ AllSucceeded(jug.pol[policy].log)

\* one policy has run all four steps and returned 0, the other has
\* returned its failing runDiffs
C33_Witness ==
    /\ jug.pol[Policy].at = "done" /\ jug.pol[Policy].result.step = "CI"
    /\ jug.pol[Leaf].at = "done" /\ jug.pol[Leaf].result.step = "runDiffs"
    /\ jug.pol[Leaf].result.status = 1

\* the baseline failed and a policy task has returned its result
C33_BaselineFailed ==
    /\ jug.base.at = "done" /\ jug.base.result.status = 1
    /\ jug.pol[Policy].at = "done"
\* the tree of a cache entry without pending edits is what its file holds
Coherent(d, c, k) == c[k].mut \/ (k \in DOMAIN d /\ d[k] = c[k].tree)

\* C34: every cached tree that has no edit pending equals the current
\* content of its file: no operation replaces, deletes or rewrites on disk
\* a file that is in the cache
C34_CacheMatchesDisk == \A k \in DOMAIN cache : Coherent(disk, cache, k)

\* C35: a cached tree that differs from what was last loaded or written has
\* its edited flag set, so that the next flush writes it
C35_MutatedIsFlagged == \A k \in DOMAIN cache : cache[k].mut => cache[k].edited

\* a derived scenario whose editor is new and whose parent's configuration
\* is in the cache
ClonesCached(s) ==
    /\ Parent(s) # NoParent
    /\ phase[s] = "new"
    /\ ParentConfigPath(s) \in DOMAIN cache
    /\ setupStatic(disk, links, cache, parses, s).ok
\* the configuration of s that setupStatic leaves is the parent's
\* configuration as the cache has it, under the name of s
CloneOfCached(s) ==
    setupStatic(disk, links, cache, parses, s).disk[cfgPath(s)]
        = Named(cache[ParentConfigPath(s)].tree, s)

\* C36: the configuration a derived scenario's setupStatic clones from its
\* parent has every edit made to the parent's configuration so far, those
\* still pending in the cache included
C36_CloneHasPendingEdits ==
    \A s \in SetupScen : ClonesCached(s) => CloneOfCached(s)

\* the same when the parent's configuration has no edit pending
C36_CloneOfFlushedParent ==
    \A s \in SetupScen :
        (ClonesCached(s) /\ ~cache[ParentConfigPath(s)].mut) => CloneOfCached(s)

\* the local name of F is a symbolic link to a file outside the scenario's
\* directory, and getLocalCopy has returned that name
LinkReturned(s) ==
    /\ LinkedCopy \in DOMAIN links
    /\ ~IsPrefix(LocalDir(s), realpath(LinkedCopy))
    /\ \E r \in Seen(returned, <<s, "F">>) : ResolveDirs(r[2]) = LinkedCopy

\* C37: when the local path getLocalCopy returns was already a symbolic
\* link to a file elsewhere, editing it and flushing leaves the link's
\* target as it was
C37_LinkTargetUntouched ==
    LinkReturned(Baseline) => disk[realpath(LinkedCopy)] = RefDataDoc

\* getLocalCopy itself leaves the link and its target alone
C37_LocalCopyKeepsLink ==
    \A s \in {Baseline} :
        (phase[s] = "static" /\ getLocalCopy(disk, cache, parses, s, "F").ok)
            => getLocalCopy(disk, cache, parses, s, "F").disk = disk

NotNamed(e, n) == ~(e.grp = "ScenarioComponents" /\ e.name = n)
\* the entries of a tree but those named n, in order
EntriesBut(tree, n) == SelectSeq(tree.elts, LAMBDA e : NotNamed(e, n))
FailedInsert(n, f, a) == ~insertScenarioComponent(disk, cache, parses, Baseline, n, f, a).ok
AfterInsert(n, f, a) == insertScenarioComponent(disk, cache, parses, Baseline, n, f, a).cache[cfgPath(Baseline)]

\* C38: an insertScenarioComponent that raises because no entry is named
\* after leaves the ScenarioComponents list and the edited flag of the
\* configuration as they were, an entry of the inserted name included
C38_FailedInsertChangesNothing ==
    phase[Baseline] = "static"
        => \A n \in CompNames, f \in CompPaths, a \in CompNames :
              FailedInsert(n, f, a)
                  => /\ AfterInsert(n, f, a).tree = CfgTree
                     /\ AfterInsert(n, f, a).edited = cache[cfgPath(Baseline)].edited

\* a failed insert leaves the entries of every other name as they were
C38_FailedInsertKeepsOthers ==
    phase[Baseline] = "static"
        => \A n \in CompNames, f \in CompPaths, a \in CompNames :
              FailedInsert(n, f, a) => EntriesBut(AfterInsert(n, f, a).tree, n) = EntriesBut(CfgTree, n)

\* the pairs one entry adds to the result, had the call only that entry
Contributes(entry) == expandYearRanges(<<entry>>).ok /\ Len(expandYearRanges(<<entry>>).result) >= 1
RejectedAsMalformed == ~yearResult.ok /\ yearResult.error = "SetupException"
\* C39: once expandYearRanges was called, every entry it was given either
\* contributes at least one pair or the call has failed with SetupException;
\* a range from a year to an earlier one, or in steps of 0, is so rejected
C39_ContributesOrRejected ==
    yearResult # NotCalled
        => \A i \in 1..Len(yearSeq) : Contributes(yearSeq[i]) \/ RejectedAsMalformed

\* every range from a year to a later one in steps of one year or more
\* contributes a pair
C39_ForwardRangeContributes ==
    \A i \in 1..Len(yearSeq) : WellFormedRange(yearSeq[i][1]) => Contributes(yearSeq[i])

\* a range from a year to an earlier one has silently expanded to nothing
C39_BackwardRangeIsEmpty ==
    /\ Len(yearSeq) = 1
    /\ YearRangeMatch(yearSeq[1][1])
    /\ FirstYear(yearSeq[1][1]) > LastYear(yearSeq[1][1])
    /\ yearResult.ok
    /\ yearResult.result = <<>>

\* a range in steps of 0 has failed with an error other than SetupException
C39_ZeroStepOtherError ==
    /\ Len(yearSeq) = 1
    /\ YearRangeMatch(yearSeq[1][1])
    /\ StepOf(yearSeq[1][1]) = 0
    /\ ~yearResult.ok
    /\ yearResult.error = "ValueError"
    /\ yearResult.echo = yearSeq[1][1]
====
